---- MODULE Spec2Model ----
(***************************************************************************)
(* Model of the mailbox-MPC node: threshold Schnorr signing ceremony       *)
(* (sign-approve / sign-finalize of node/app/main.py) over the HSM facade  *)
(* (hardware.py), the local state store (state.py), the Git bulletin       *)
(* board (transport.py) and the signer engine (crypto.py).                 *)
(*                                                                         *)
(* The curve is modelled by the cyclic group Z_ORDER written additively:   *)
(* a point is the scalar d with P = d*G, so G = 1 and IDENTITY = 0.  The   *)
(* compressed encoding keeps its shape: a prefix for the sign of y and the *)
(* x-coordinate, which P and -P share.  The hash functions (SHA-256 of the *)
(* challenge preimage, HMAC-SHA512 of the derivation input) are fixed      *)
(* arithmetic functions of the same arguments.                             *)
(*                                                                         *)
(* One signing request is followed after a finished 2-of-3 DKG.            *)
(*   Spec          sign-approve step by step, with process crashes, state  *)
(*                 restores, board rewinds, HSM store failures and failed  *)
(*                 posts.                                                  *)
(*   SpecFinalize  sign-approve and concurrent, repeated sign-finalize     *)
(*                 runs of all nodes, without faults.                      *)
(*   SpecSign      the signer engine alone: partial signatures, combine    *)
(*                 and verify over every key polynomial, nonce choice and  *)
(*                 participant set.                                        *)
(*   SpecDkg       the DKG commands dkg-start, dkg-distribute and          *)
(*                 dkg-finalize of all nodes, with process crashes and     *)
(*                 corrupted share files; the last node may run init       *)
(*                 before or during the round.                             *)
(*   SpecDkgLive   the same round with honest nodes only, each running     *)
(*                 its commands in order, under strong fairness per node.  *)
(*   SpecHsm       the init command and the HSM nonce counter across       *)
(*                 sign-approve runs, crashes and deleted state files.     *)
(*   SpecProd      sign-approve where one node runs with                   *)
(*                 HSM_MODE=production and the others with demo.           *)
(*   SpecCodec     the encodings alone: point and scalar hex, signer state *)
(*                 to_json / from_json, receive_commitment.                *)
(*   SpecRace      two callers inside _increment_nonce_counter on the      *)
(*                 same HSM counter object.                                *)
(*   SpecIntra     one node from the inside: the worker threads of the     *)
(*                 DKG thread pool, Mailbox.post with its retries, and     *)
(*                 StateStore.update / load under the file lock.           *)
(*   SpecFinalizeLive  SpecFinalize for one group key under weak fairness  *)
(*                 per node.                                               *)
(* sign-approve runs of different nodes are serialised: their steps touch  *)
(* disjoint state and commute.  DKG commands run one at a time, as an      *)
(* operator drives the ceremony.                                           *)
(***************************************************************************)
EXTENDS Integers, Sequences, FiniteSets, TLC

\* ------------------------------------------------------------------ bounds
MaxCounter == 2     \* largest value the HSM nonce counter takes
MaxCrashes == 1     \* process crashes (kill at any step of a command)
MaxRestores == 1    \* restores of state.json to the pre-approve snapshot
MaxRewinds == 1     \* board rewinds that remove a posted commitment
MaxHsmFaults == 2   \* HSM create_object failures inside store_nonce_commitment
MaxPostFaults == 1  \* Mailbox.post calls that exhaust their retries
MaxDeletes == 1     \* deletions of a node's state.json
MaxDkgCrashes == 2  \* process crashes inside the DKG commands

\* --------------------------------------------------------------- constants
ORDER == 13         \* group order (CURVE.q)
G == 1              \* generator
IDENTITY == 0       \* point at infinity
Threshold == 2      \* current.dkg.threshold
TotalNodes == 3     \* current.dkg.total_nodes
MsgHash == 4        \* message_hash of signing/<id>/request.json

Nodes == 1..TotalNodes      \* node_id "node<i>" has index i
None == <<>>                \* absent hex string / absent file / absent HSM object
NoInt == -1                 \* absent integer (Python None, absent HSM object)
BadCipher == -2             \* a share file that decrypt_with_identity_key rejects
\* the coefficient lists [secrets.randbelow(ORDER) for _ in range(t)] that
\* dkg-start draws
Polynomials == {<<0, 5>>, <<5, 11>>}
Scalars == 0..(ORDER - 1)

\* ------------------------------------------------------------ curve layer
point_add(p, q) == (p + q) % ORDER

point_mul(k, p) == (k * p) % ORDER

is_identity(p) == p = IDENTITY

\* x-coordinate shared by p and -p; y is "even" on the lower half
XCoord(p) == IF p <= ORDER - p THEN p ELSE ORDER - p

YEven(p) == p <= ORDER - p

point_to_hex(p) ==
    IF is_identity(p) THEN <<"00", 0>>
    ELSE <<IF YEven(p) THEN "02" ELSE "03", XCoord(p)>>

\* a decoding that keeps the root whatever the prefix says
hex_to_point_root(h) == IF h[1] = "00" THEN IDENTITY ELSE h[2]

hex_to_point(h) ==
    IF h[1] = "00" THEN IDENTITY
    ELSE LET y == h[2]    \* the root the square-root formula returns
         IN IF (h[1] = "02" /\ ~YEven(y)) \/ (h[1] = "03" /\ YEven(y))
            THEN ORDER - y ELSE y

RECURSIVE ModPow(_, _)
ModPow(a, e) == IF e = 0 THEN 1 ELSE (a * ModPow(a, e - 1)) % ORDER

\* pow(a, -1, m): defined only when a is invertible
mod_inverse(a) == ModPow(a % ORDER, ORDER - 2)

HexCode(h) == 2 * h[2] + (IF h[1] = "03" THEN 1 ELSE 0)

\* e = SHA256(R_hex || P_hex || message_hash) mod n
Challenge(R_hex, P_hex, m) == (3 * HexCode(R_hex) + 5 * HexCode(P_hex) + m + 1) % ORDER

\* k = HMAC-SHA512(master_seed, 0x00 || counter || request_id || msg_hash)[0:32] mod n
DeriveK(seed, c, m) == ((seed + 5 * c + m) % (ORDER - 1)) + 1

\* ------------------------------------------------------- sequences of ids
RECURSIVE SortedSeq(_)
SortedSeq(S) ==
    IF S = {} THEN <<>>
    ELSE LET lo == CHOOSE x \in S : \A y \in S : x <= y
         IN <<lo>> \o SortedSeq(S \ {lo})

Range(s) == {s[i] : i \in 1..Len(s)}

Prefix(s, k) == SubSeq(s, 1, IF k < Len(s) THEN k ELSE Len(s))

RECURSIVE SumOver(_, _)
SumOver(f, S) ==
    IF S = {} THEN 0
    ELSE LET x == CHOOSE y \in S : TRUE
         IN (f[x] + SumOver(f, S \ {x})) % ORDER

\* ------------------------------------------------------------------ state
VARIABLES
    pc,          \* pc[n]: position of node n's running command ("idle" = none)
    mem,         \* mem[n]: the running command's in-process variables
    local,       \* local[n]: state.json (dkg flags, used_nonces, nonce_derivations)
    hsm,         \* hsm[n]: HSM objects NONCE_COUNTER, NONCE_<id>, NONCE_DERIV_<c>, seed, share
    signerFile,  \* signerFile[n]: signer_<id>.json written by sign-approve
    board,       \* the bulletin board: signing/<id>/{commitments,session,partials,result};
                 \* partials_over[n] (history) = the participants n's posted partial was computed over
    group_pubkey,\* current.dkg.group_pubkey_hex, as a point
    faults,      \* how many crashes / restores / rewinds / device failures happened
    last,        \* <<n, how>> right after node n's command ended, else NoLast
    postedR,     \* history: R values node n ever posted as its commitment
    derivations, \* history: counter values node n's increments produced for the request
    emitted,     \* history: <<k, participants>> of every partial signature n computed
    dkgFile,     \* dkgFile[n]: dkg_<round>.json written by dkg-start
    dkgBoard,    \* the bulletin board: identity/, dkg/<round>/{commitments,shares}
    calc         \* one run of the signer engine on chosen shares and nonces

signVars == <<pc, mem, local, hsm, signerFile, board, group_pubkey, faults,
              last, postedR, derivations, emitted>>

vars == <<pc, mem, local, hsm, signerFile, board, group_pubkey, faults,
          last, postedR, derivations, emitted, dkgFile, dkgBoard, calc>>

NoLast == <<0, "none">>
NoPoints == [n \in Nodes |-> NoInt]
NoHexes == [n \in Nodes |-> None]
NoSession == [participants |-> <<>>, locked_by |-> 0]
NoResult == [R |-> None, s |-> NoInt, participants |-> <<>>]
NoSigner == [exists |-> FALSE, my_share |-> NoInt, my_nonce_k |-> NoInt,
             nonce_commitments |-> NoHexes, partial_signatures |-> NoPoints]

NoDkgFile == [exists |-> FALSE, coefficients |-> <<>>, commitments |-> <<>>]
NoCalc == [participants |-> <<>>, coefficients |-> <<>>, k |-> NoPoints, R |-> None,
           s |-> NoInt, valid |-> FALSE, done |-> FALSE,
           op |-> "sign", input |-> <<>>, output |-> <<>>, short |-> {}]

EmptyMem == [start_used |-> None, share |-> NoInt, counter |-> NoInt, k |-> NoInt, R_hex |-> None,
             participants |-> <<>>,
             nonce_commitments |-> NoPoints, partial_s |-> NoInt, sig |-> NoResult,
             my_coefficients |-> <<>>, my_commitments |-> <<>>,
             other_commitments |-> [n \in Nodes |-> <<>>],
             received_shares |-> NoPoints,
             final_share |-> NoInt, group_public_key |-> NoInt]

\* NodeState(node_id) as RigidState.__init__ first saves it (state.py 10-36)
NodeState == [identity_key_posted |-> FALSE, phase |-> "none", my_share_stored |-> FALSE,
              group_pubkey_hex |-> None, used_nonces |-> None, nonce_derivations |-> NoInt]

\* dealer polynomial of the finished DKG: f(x) = a0 + a1*x, share of node i = f(i)
PolyShare(a0, a1, i) == (a0 + a1 * i) % ORDER

\* ------------------------------------------------------------ Feldman DKG
RECURSIVE EvalPoly(_, _, _)
\* sum over k >= from of coefficients[k] * x^(k - from), Horner form of
\* result = (result + coeff * pow(x, k, ORDER)) % ORDER
EvalPoly(coefficients, x, from) ==
    IF from > Len(coefficients) THEN 0
    ELSE (coefficients[from] + x * EvalPoly(coefficients, x, from + 1)) % ORDER

\* FeldmanDKG.generate_polynomial: the hex commitments of the coefficients
generate_polynomial(coefficients) ==
    [k \in 1..Len(coefficients) |-> point_to_hex(point_mul(coefficients[k], G))]

\* FeldmanDKG.compute_share_for
compute_share_for(coefficients, target_index) == EvalPoly(coefficients, target_index, 1)

\* FeldmanDKG.receive_commitment
receive_commitment(commitments_hex) ==
    [k \in 1..Len(commitments_hex) |-> hex_to_point(commitments_hex[k])]

\* a check that accepts every share
receive_share_lenient(my_index, commitments, share_value) == TRUE

\* FeldmanDKG.receive_share: from_node known and share*G == sum of my_index^k * C_k
receive_share(my_index, commitments, share_value) ==
    /\ commitments # <<>>
    /\ point_mul(share_value % ORDER, G) = EvalPoly(commitments, my_index, 1)

\* a final share that leaves the received shares out
finalize_own_only(my_index, my_coefficients, my_commitments, received_shares, other_commitments) ==
    [final_share |-> compute_share_for(my_coefficients, my_index),
     group_pk |-> my_commitments[1]]

\* FeldmanDKG.finalize: received_shares[j] = NoInt and other_commitments[j] = <<>>
\* when j has no entry
finalize(my_index, my_coefficients, my_commitments, received_shares, other_commitments) ==
    LET senders == {j \in Nodes : received_shares[j] # NoInt}
        known == {j \in Nodes : other_commitments[j] # <<>>}
        c0 == [j \in Nodes |-> IF j \in known THEN other_commitments[j][1] ELSE 0]
    IN [final_share |-> (compute_share_for(my_coefficients, my_index)
                            + SumOver(received_shares, senders)) % ORDER,
        group_pk |-> point_add(my_commitments[1], SumOver(c0, known))]

\* the polynomials of the finished DKG: their sum is a0 + 3x
DkgPoly(a0, n) == IF n = 1 THEN <<a0, 1>> ELSE IF n = 2 THEN <<1, 1>> ELSE <<ORDER - 1, 1>>

\* dkg_<round>.json of node n after dkg-start
DkgFileOf(coefficients) ==
    [exists |-> TRUE, coefficients |-> coefficients,
     commitments |-> generate_polynomial(coefficients)]

NoShares == [s \in Nodes |-> [t \in Nodes |-> NoInt]]

\* the nodes, HSMs and board after a finished DKG and a posted signing request;
\* used = the environment events already spent
InitCeremony(used) ==
    /\ pc = [n \in Nodes |-> "idle"]
    /\ mem = [n \in Nodes |-> EmptyMem]
    /\ \E a0 \in {2, 7} :
         /\ hsm = [n \in Nodes |-> [counter |-> 0, seed |-> 2 * n + 1, nonce |-> None,
                                    deriv |-> {}, share |-> PolyShare(a0, 3, n)]]
         /\ group_pubkey = point_mul(a0, G)
         /\ local = [n \in Nodes |->
                [NodeState EXCEPT !.identity_key_posted = TRUE, !.phase = "finalized",
                                  !.my_share_stored = TRUE,
                                  !.group_pubkey_hex = point_to_hex(point_mul(a0, G))]]
         /\ dkgFile = [n \in Nodes |-> DkgFileOf(DkgPoly(a0, n))]
         /\ dkgBoard = [identities |-> Nodes,
                        commitments |-> [n \in Nodes |-> generate_polynomial(DkgPoly(a0, n))],
                        shares |-> [s \in Nodes |-> [t \in Nodes |->
                            IF s = t THEN NoInt ELSE compute_share_for(DkgPoly(a0, s), t)]]]
    /\ signerFile = [n \in Nodes |-> NoSigner]
    /\ board = [commitments |-> NoHexes, session |-> NoSession,
                partials |-> NoPoints, result |-> NoResult,
                partials_over |-> [n \in Nodes |-> <<>>]]
    /\ faults = used
    /\ last = NoLast
    /\ postedR = [n \in Nodes |-> {}]
    /\ derivations = [n \in Nodes |-> {}]
    /\ emitted = [n \in Nodes |-> {}]

InitWith(used) == InitCeremony(used) /\ calc = NoCalc

Init == InitWith([crash |-> 0, restore |-> 0, rewind |-> 0, hsm |-> 0, post |-> 0,
                  delete |-> MaxDeletes,
                  dkgcrash |-> MaxDkgCrashes])

\* a command of node n ends: its process memory is gone
Exit(n, how) ==
    /\ pc' = [pc EXCEPT ![n] = "idle"]
    /\ mem' = [mem EXCEPT ![n] = EmptyMem]
    /\ last' = <<n, how>>

Goto(n, label) ==
    /\ pc' = [pc EXCEPT ![n] = label]
    /\ last' = NoLast

\* a command of node n returns: at its first check, having done nothing, or
\* at its end with an outcome no property refers to
Return(n) ==
    /\ pc' = [pc EXCEPT ![n] = "idle"]
    /\ mem' = [mem EXCEPT ![n] = EmptyMem]
    /\ last' = NoLast

\* ------------------------------------------------------------ HSM facade
\* a check that finds no record whatever the HSM holds
has_nonce_commitment_blind(h) == FALSE

has_nonce_commitment(h) == h.nonce # None

has_nonce_master_seed(h) == h.seed # NoInt

\* a mode test that never reports production
is_production_mode_never(hsm_mode) == FALSE

\* HardwareToken.is_production_mode: HSM_MODE of the process environment
is_production_mode(hsm_mode) == hsm_mode = "production"

\* HardwareToken.get_dkg_share: raises SecurityError in production mode, else
\* returns the VALUE attribute of DKG_SHARE_<round>
get_dkg_share(h, hsm_mode) ==
    IF is_production_mode(hsm_mode)
    THEN [raised |-> "SecurityError", value |-> NoInt]
    ELSE [raised |-> "no", value |-> h.share]

\* ---------------------------------------------------------- state store
check_nonce_unused(st) == st.used_nonces = None

\* an update that is never written back
record_nonce_use_dropped(st, commitment) == st

\* RigidState.record_nonce_use
record_nonce_use(st, commitment) == [st EXCEPT !.used_nonces = commitment]

\* a derivation record that is never written back
record_nonce_derivation_dropped(st, counter, R_hex) == st

\* RigidState.record_nonce_derivation
record_nonce_derivation(st, counter, R_hex) ==
    [st EXCEPT !.used_nonces = R_hex, !.nonce_derivations = counter]

ApprovePcs == {"rec_store", "rec_local", "derive", "inc_create", "deriv_rec",
               "store", "local", "post", "save"}

\* ---------------------------------------------------------- sign-approve
\* main.py 548-634: load state, the three guard layers, request review (the
\* request is on the board; confirm = the operator's answer), the mode check and
\* the share read; hsm_mode = HSM_MODE of the process
ApproveBeginIn(n, hsm_mode) ==
    /\ pc[n] = "idle"
    /\ \A m \in Nodes : pc[m] \notin ApprovePcs
    /\ local[n].my_share_stored
    /\ UNCHANGED <<local, hsm, signerFile, board, group_pubkey, faults,
                   postedR, derivations, emitted>>
    /\ IF ~check_nonce_unused(local[n])
       THEN Exit(n, "approve_refused_local")
       ELSE IF has_nonce_commitment(hsm[n])
       THEN Exit(n, "approve_refused_hsm")
       ELSE IF board.commitments[n] # None
       THEN /\ Goto(n, "rec_store")
            /\ mem' = [mem EXCEPT ![n] = [EmptyMem EXCEPT
                          !.start_used = local[n].used_nonces,
                          !.R_hex = board.commitments[n]]]
       ELSE \E confirm \in BOOLEAN :
              IF ~confirm
              THEN Exit(n, "approve_rejected")
              ELSE IF is_production_mode(hsm_mode)
              THEN Exit(n, "approve_production")
              ELSE LET share == get_dkg_share(hsm[n], hsm_mode)
                   IN IF share.raised # "no"
                      THEN Exit(n, "approve_raised")
                      ELSE /\ Goto(n, "derive")
                           /\ mem' = [mem EXCEPT ![n] = [EmptyMem EXCEPT
                                         !.start_used = local[n].used_nonces,
                                         !.share = share.value]]

\* sign-approve of a node run with HSM_MODE=demo
ApproveBegin(n) == ApproveBeginIn(n, "demo")

\* HardwareToken.store_nonce_commitment: refuses an existing record, else creates
\* NONCE_<id>; ok = FALSE is a device error raised by create_object
store_nonce_commitment(h, R_hex, ok) ==
    IF has_nonce_commitment(h) THEN [raised |-> "SecurityError", hsm |-> h]
    ELSE IF ~ok THEN [raised |-> "Exception", hsm |-> h]
    ELSE [raised |-> "no", hsm |-> [h EXCEPT !.nonce = R_hex]]

HsmInput(ok) ==
    /\ ok \in BOOLEAN
    /\ ~ok => faults.hsm < MaxHsmFaults

CountHsmFault(ok) ==
    IF ok THEN faults ELSE [faults EXCEPT !.hsm = @ + 1]

\* main.py 589-599: recovery, first write (HSM record of the board's R)
RecoverStore(n) ==
    /\ pc[n] = "rec_store"
    /\ \E ok \in BOOLEAN :
         /\ HsmInput(ok)
         /\ LET r == store_nonce_commitment(hsm[n], mem[n].R_hex, ok)
            IN /\ hsm' = [hsm EXCEPT ![n] = r.hsm]
               /\ faults' = IF r.raised = "Exception" THEN CountHsmFault(ok) ELSE faults
               /\ IF r.raised = "no"
                  THEN Goto(n, "rec_local") /\ UNCHANGED mem
                  ELSE Exit(n, "approve_recovery_failed")
    /\ UNCHANGED <<local, signerFile, board, group_pubkey, postedR, derivations, emitted>>

\* main.py 595-599: recovery, second write (local state), then return
RecoverLocal(n) ==
    /\ pc[n] = "rec_local"
    /\ local' = [local EXCEPT ![n] = record_nonce_use(local[n], mem[n].R_hex)]
    /\ Exit(n, "approve_recovered")
    /\ UNCHANGED <<hsm, signerFile, board, group_pubkey, faults, postedR,
                   derivations, emitted>>

\* hardware.py 521-483: derive_nonce up to the destroy of the old counter object
DeriveDestroy(n) ==
    /\ pc[n] = "derive"
    /\ UNCHANGED <<local, signerFile, board, group_pubkey, faults, postedR,
                   derivations, emitted>>
    /\ IF ~has_nonce_master_seed(hsm[n]) \/ hsm[n].counter = NoInt
       THEN Exit(n, "approve_derive_failed") /\ UNCHANGED hsm
       ELSE /\ hsm[n].counter < MaxCounter
            /\ hsm' = [hsm EXCEPT ![n].counter = NoInt]
            /\ mem' = [mem EXCEPT ![n].counter = hsm[n].counter + 1]
            /\ Goto(n, "inc_create")

\* hardware.py 487-557: the counter object is recreated; k and R are computed
DeriveCreate(n) ==
    /\ pc[n] = "inc_create"
    /\ hsm' = [hsm EXCEPT ![n].counter = mem[n].counter]
    /\ LET k == DeriveK(hsm[n].seed, mem[n].counter, MsgHash)
       IN mem' = [mem EXCEPT ![n].k = k, ![n].R_hex = point_to_hex(point_mul(k, G))]
    /\ derivations' = [derivations EXCEPT ![n] = @ \cup {mem[n].counter}]
    /\ Goto(n, "deriv_rec")
    /\ UNCHANGED <<local, signerFile, board, group_pubkey, faults, postedR, emitted>>

\* hardware.py 559-569: _store_derivation_record (NONCE_DERIV_<counter>)
DeriveRecord(n) ==
    /\ pc[n] = "deriv_rec"
    /\ hsm' = [hsm EXCEPT ![n].deriv = @ \cup {<<mem[n].counter, mem[n].R_hex>>}]
    /\ Goto(n, "store")
    /\ UNCHANGED <<mem, local, signerFile, board, group_pubkey, faults, postedR,
                   derivations, emitted>>

\* main.py 674-683: NONCE_<id> record; both exception classes are swallowed
ApproveStore(n) ==
    /\ pc[n] = "store"
    /\ \E ok \in BOOLEAN :
         /\ HsmInput(ok)
         /\ LET r == store_nonce_commitment(hsm[n], mem[n].R_hex, ok)
            IN /\ hsm' = [hsm EXCEPT ![n] = r.hsm]
               /\ faults' = IF r.raised = "Exception" THEN CountHsmFault(ok) ELSE faults
    /\ Goto(n, "local")
    /\ UNCHANGED <<mem, local, signerFile, board, group_pubkey, postedR,
                   derivations, emitted>>

\* main.py 685-692: state.record_nonce_derivation
ApproveLocal(n) ==
    /\ pc[n] = "local"
    /\ local' = [local EXCEPT ![n] =
                    record_nonce_derivation(local[n], mem[n].counter, mem[n].R_hex)]
    /\ Goto(n, "post")
    /\ UNCHANGED <<mem, hsm, signerFile, board, group_pubkey, faults, postedR,
                   derivations, emitted>>

PostInput(ok) ==
    /\ ok \in BOOLEAN
    /\ ~ok => faults.post < MaxPostFaults

CountPostFault(ok) ==
    IF ok THEN faults ELSE [faults EXCEPT !.post = @ + 1]

\* Mailbox.post: sync, write the file over whatever the path holds, commit, push;
\* raises after the last failed attempt (ok = FALSE)
MailboxPost(b, field, key, data) ==
    IF key = 0 THEN [b EXCEPT ![field] = data]
    ELSE [b EXCEPT ![field][key] = data]

\* main.py 694-702: post the NonceCommitment
ApprovePost(n) ==
    /\ pc[n] = "post"
    /\ \E ok \in BOOLEAN :
         /\ PostInput(ok)
         /\ faults' = CountPostFault(ok)
         /\ IF ok
            THEN /\ board' = MailboxPost(board, "commitments", n, mem[n].R_hex)
                 /\ postedR' = [postedR EXCEPT ![n] = @ \cup {mem[n].R_hex}]
                 /\ Goto(n, "save")
                 /\ UNCHANGED mem
            ELSE /\ Exit(n, "approve_post_failed")
                 /\ UNCHANGED <<board, postedR>>
    /\ UNCHANGED <<local, hsm, signerFile, group_pubkey, derivations, emitted>>

\* SigningRound.to_dict / ThresholdSigner.to_json of the session that
\* create_nonce_commitment_from_k built
to_json(n, share, k, R_hex) ==
    [exists |-> TRUE, my_share |-> share, my_nonce_k |-> k,
     nonce_commitments |-> [NoHexes EXCEPT ![n] = point_to_hex(hex_to_point(R_hex))],
     partial_signatures |-> NoPoints]

\* main.py 704-710: write signer_<id>.json
ApproveSave(n) ==
    /\ pc[n] = "save"
    /\ signerFile' = [signerFile EXCEPT ![n] =
                         to_json(n, mem[n].share, mem[n].k, mem[n].R_hex)]
    /\ Exit(n, "approve_done")
    /\ UNCHANGED <<local, hsm, board, group_pubkey, faults, postedR,
                   derivations, emitted>>

\* --------------------------------------------------------- signer engine
RECURSIVE SeqProd(_, _)
\* product over the participants j # i of f(j), mod ORDER
SeqProd(js, f) ==
    IF js = <<>> THEN 1
    ELSE (f[Head(js)] * SeqProd(Tail(js), f)) % ORDER

RECURSIVE AggregateR(_, _)
\* R = IDENTITY; for node_id in participants: R = R + nonce_commitments[node_id]
AggregateR(participants, nonce_commitments) ==
    IF participants = <<>> THEN IDENTITY
    ELSE point_add(nonce_commitments[Head(participants)],
                   AggregateR(Tail(participants), nonce_commitments))

\* a coefficient that ignores the participant set
Lagrange_unit(i, participants) == 1

\* crypto.py 288-295: lambda_i = prod(-j) * inverse(prod(i - j)) over j # i
Lagrange(i, participants) ==
    LET others == SelectSeq(participants, LAMBDA j : j # i)
        num == SeqProd(others, [j \in Nodes |-> (0 - j) % ORDER])
        den == SeqProd(others, [j \in Nodes |-> (i - j) % ORDER])
    IN (num * mod_inverse(den)) % ORDER

\* ThresholdSigner.compute_partial_signature
compute_partial_signature(i, k, share, pubkey, nonce_commitments, participants, m) ==
    LET R == AggregateR(participants, nonce_commitments)
        e == Challenge(point_to_hex(R), point_to_hex(pubkey), m)
    IN (k + e * Lagrange(i, participants) * share) % ORDER

\* ThresholdSigner.combine_signatures; partials[j] = NoInt when j has no entry
combine_signatures(partials, nonce_commitments, participants) ==
    LET present == {j \in Nodes : partials[j] # NoInt}
    IN [R |-> point_to_hex(AggregateR(participants, nonce_commitments)),
        s |-> SumOver(partials, present)]

\* one run of the engine for the participants of calc with shares of the
\* polynomial calc.coefficients and nonces calc.k: every participant's
\* create_nonce_commitment_from_k, receive_nonce_commitment and
\* compute_partial_signature, then combine_signatures
SignerRun(c) ==
    LET P == point_mul(c.coefficients[1], G)
        S == Range(c.participants)
        commitments == [j \in Nodes |->
            IF j \in S THEN hex_to_point(point_to_hex(point_mul(c.k[j], G))) ELSE NoInt]
        partials == [j \in Nodes |->
            IF j \in S
            THEN compute_partial_signature(j, c.k[j], compute_share_for(c.coefficients, j),
                                           P, commitments, c.participants, MsgHash)
            ELSE NoInt]
    IN combine_signatures(partials, commitments, c.participants)

\* the same run with the partial signatures of the participants in kept only,
\* over the nonce commitments of all participants; omitted = the sum of the
\* partial signatures left out
SignerRunOf(c, kept) ==
    LET P == point_mul(c.coefficients[1], G)
        S == Range(c.participants)
        commitments == [j \in Nodes |->
            IF j \in S THEN hex_to_point(point_to_hex(point_mul(c.k[j], G))) ELSE NoInt]
        partials == [j \in Nodes |->
            IF j \in S
            THEN compute_partial_signature(j, c.k[j], compute_share_for(c.coefficients, j),
                                           P, commitments, c.participants, MsgHash)
            ELSE NoInt]
        sig == combine_signatures([j \in Nodes |-> IF j \in kept THEN partials[j] ELSE NoInt],
                                  commitments, c.participants)
    IN [kept |-> kept, R |-> sig.R, s |-> sig.s, omitted |-> SumOver(partials, S \ kept)]

\* a verification that accepts every pair
verify_signature_lenient(R_hex, sval, pubkey, m) == TRUE

\* ThresholdSigner.verify_signature: s*G == R + e*P
verify_signature(R_hex, sval, pubkey, m) ==
    LET R == hex_to_point(R_hex)
        e == Challenge(R_hex, point_to_hex(pubkey), m)
    IN point_mul(sval, G) = point_add(R, point_mul(e, pubkey))

\* --------------------------------------------------------- sign-finalize
CommitFiles(b) == {m \in Nodes : b.commitments[m] # None}

PartialFiles(b) == {m \in Nodes : b.partials[m] # NoInt}

\* a choice that takes the first t sorted ids whoever the node is
SelectParticipants_first(n, commit_files, t) == Prefix(SortedSeq(commit_files), t)

\* main.py 775-785: the first finalizer's choice of t participants
SelectParticipants(n, commit_files, t) ==
    LET sorted_commits == SortedSeq(commit_files)
    IN IF n \in Range(Prefix(sorted_commits, t))
       THEN Prefix(sorted_commits, t)
       ELSE LET others == SelectSeq(sorted_commits, LAMBDA c : c # n)
            IN SortedSeq({n} \cup Range(Prefix(others, t - 1)))

\* ThresholdSigner.from_json: the session as sign-approve saved it
from_json(f) ==
    [EmptyMem EXCEPT !.k = f.my_nonce_k,
        !.nonce_commitments = [m \in Nodes |->
            IF f.nonce_commitments[m] = None THEN NoInt
            ELSE hex_to_point(f.nonce_commitments[m])]]

\* a first part of sign-finalize that posts a session lock of its own
FinalizeReads_locking(n) ==
    /\ board' = MailboxPost(board, "session", 0, [participants |-> <<n>>, locked_by |-> n])
    /\ UNCHANGED <<local, hsm, signerFile, group_pubkey, faults,
                   postedR, derivations, emitted>>

\* main.py 722-771: the first part of sign-finalize loads the state, reads
\* the signer file and reads the board (list_files, read); it writes nothing
FinalizeReads(n) ==
    UNCHANGED <<local, hsm, signerFile, board, group_pubkey, faults,
                postedR, derivations, emitted>>

\* main.py 722-794 up to the decision about the session lock
FinalizeBegin(n) ==
    /\ pc[n] = "idle"
    /\ FinalizeReads(n)
    /\ IF ~signerFile[n].exists
       THEN Exit(n, "finalize_no_session")
       ELSE IF Cardinality(CommitFiles(board)) < Threshold
       THEN Exit(n, "finalize_below_threshold")
       ELSE IF n \notin CommitFiles(board)
       THEN Exit(n, "finalize_not_approved")
       ELSE IF board.session # NoSession
       THEN IF n \notin Range(board.session.participants)
            THEN Exit(n, "finalize_not_in_set")
            ELSE /\ Goto(n, "fin_load")
                 /\ mem' = [mem EXCEPT ![n] = [from_json(signerFile[n]) EXCEPT
                               !.participants = board.session.participants]]
       ELSE /\ Goto(n, "fin_lock")
            /\ mem' = [mem EXCEPT ![n] = [from_json(signerFile[n]) EXCEPT
                          !.participants =
                              SelectParticipants(n, CommitFiles(board), Threshold)]]

\* main.py 787-794: post the session lock
FinalizeLock(n) ==
    /\ pc[n] = "fin_lock"
    /\ \E ok \in BOOLEAN :
         /\ PostInput(ok)
         /\ faults' = CountPostFault(ok)
         /\ IF ok
            THEN /\ board' = MailboxPost(board, "session", 0,
                                [participants |-> mem[n].participants, locked_by |-> n])
                 /\ Goto(n, "fin_load")
                 /\ UNCHANGED mem
            ELSE /\ Exit(n, "finalize_post_failed")
                 /\ UNCHANGED board
    /\ UNCHANGED <<local, hsm, signerFile, group_pubkey, postedR, derivations, emitted>>

\* main.py 798-806: load the participants' commitments, compute the partial
FinalizeCompute(n) ==
    /\ pc[n] = "fin_load"
    /\ UNCHANGED <<local, hsm, signerFile, board, group_pubkey, faults,
                   postedR, derivations>>
    /\ IF \E j \in Range(mem[n].participants) : board.commitments[j] = None
       THEN Exit(n, "finalize_raised") /\ UNCHANGED emitted
       ELSE LET loaded == [j \in Nodes |->
                              IF j \in Range(mem[n].participants)
                              THEN hex_to_point(board.commitments[j])
                              ELSE mem[n].nonce_commitments[j]]
                s_i == compute_partial_signature(n, mem[n].k, signerFile[n].my_share,
                           group_pubkey, loaded, mem[n].participants, MsgHash)
            IN /\ mem' = [mem EXCEPT ![n].nonce_commitments = loaded,
                                     ![n].partial_s = s_i,
                                     ![n].k = NoInt]
               /\ emitted' = [emitted EXCEPT ![n] =
                                 @ \cup {<<mem[n].k, mem[n].participants>>}]
               /\ Goto(n, "fin_post")

\* main.py 808-815: post the partial signature
FinalizePost(n) ==
    /\ pc[n] = "fin_post"
    /\ \E ok \in BOOLEAN :
         /\ PostInput(ok)
         /\ faults' = CountPostFault(ok)
         /\ IF ok
            THEN /\ board' = [MailboxPost(board, "partials", n, mem[n].partial_s)
                                EXCEPT !.partials_over[n] = mem[n].participants]
                 /\ Goto(n, "fin_combine")
                 /\ UNCHANGED mem
            ELSE /\ Exit(n, "finalize_post_failed")
                 /\ UNCHANGED board
    /\ UNCHANGED <<local, hsm, signerFile, group_pubkey, postedR, derivations, emitted>>

\* main.py 817-853: count the partials, combine and verify
FinalizeCombine(n) ==
    /\ pc[n] = "fin_combine"
    /\ UNCHANGED <<local, hsm, signerFile, board, group_pubkey, faults,
                   postedR, derivations, emitted>>
    /\ IF Cardinality(PartialFiles(board)) < Threshold
       THEN Exit(n, "finalize_partial_posted")
       ELSE LET partials == [j \in Nodes |->
                                IF j \in Range(mem[n].participants)
                                THEN board.partials[j] ELSE NoInt]
                sig == combine_signatures(partials, mem[n].nonce_commitments,
                                          mem[n].participants)
            IN IF Cardinality({j \in Nodes : partials[j] # NoInt}) < Threshold
               THEN Exit(n, "finalize_waiting_partials")
               ELSE IF verify_signature(sig.R, sig.s, group_pubkey, MsgHash)
               THEN /\ mem' = [mem EXCEPT ![n].sig =
                                  [R |-> sig.R, s |-> sig.s,
                                   participants |-> mem[n].participants]]
                    /\ Goto(n, "fin_result")
               ELSE Exit(n, "finalize_invalid")

\* main.py 855-865: post the FinalSignature
FinalizeResult(n) ==
    /\ pc[n] = "fin_result"
    /\ \E ok \in BOOLEAN :
         /\ PostInput(ok)
         /\ faults' = CountPostFault(ok)
         /\ IF ok
            THEN /\ board' = MailboxPost(board, "result", 0, mem[n].sig)
                 /\ Exit(n, "finalize_signed")
            ELSE /\ Exit(n, "finalize_post_failed")
                 /\ UNCHANGED board
    /\ UNCHANGED <<local, hsm, signerFile, group_pubkey, postedR, derivations, emitted>>

\* ------------------------------------------------------------------- init
ceremonyVars == <<signerFile, board, group_pubkey, postedR, derivations, emitted, calc>>

\* an initialisation that does not look for an existing master seed
NeedsNonceInit_always(h) == TRUE

\* hardware.py 386-388: initialize_nonce_derivation acts only without a master seed
NeedsNonceInit(h) == ~has_nonce_master_seed(h)

\* main.py 49-81, hardware.py 386-402: the init command up to the created master seed
InitBegin(n) ==
    /\ pc[n] = "idle"
    /\ UNCHANGED <<local, faults, dkgFile, dkgBoard, ceremonyVars>>
    /\ IF local[n].identity_key_posted
       THEN Return(n) /\ UNCHANGED hsm
       ELSE IF NeedsNonceInit(hsm[n])
       THEN /\ hsm' = [hsm EXCEPT ![n].seed = 2 * n + 1]
            /\ Goto(n, "init_counter")
            /\ UNCHANGED mem
       ELSE /\ Goto(n, "init_post")
            /\ UNCHANGED <<hsm, mem>>

\* hardware.py 404-416: NONCE_COUNTER is created with value 0
InitCounter(n) ==
    /\ pc[n] = "init_counter"
    /\ hsm' = [hsm EXCEPT ![n].counter = 0]
    /\ Goto(n, "init_post")
    /\ UNCHANGED <<mem, local, faults, dkgFile, dkgBoard, ceremonyVars>>

\* main.py 87-94: post the identity, then identity_key_posted = True
InitPost(n) ==
    /\ pc[n] = "init_post"
    /\ dkgBoard' = [dkgBoard EXCEPT !.identities = @ \cup {n}]
    /\ local' = [local EXCEPT ![n].identity_key_posted = TRUE]
    /\ Exit(n, "init_done")
    /\ UNCHANGED <<hsm, faults, dkgFile, ceremonyVars>>

\* ------------------------------------------------------------ DKG commands
\* the positions inside the DKG commands; the commands of different nodes run
\* one at a time, in any order
DkgPcs == {"start_file", "start_state", "dist_state",
           "dkgfin_verify", "dkgfin_store", "dkgfin_state"}

\* main.py 198-222: dkg-start up to the post of the DKGCommitment
DkgStartPost(n) ==
    /\ pc[n] = "idle"
    /\ \A m \in Nodes : pc[m] \notin DkgPcs
    /\ UNCHANGED <<local, hsm, dkgFile, faults, ceremonyVars>>
    /\ IF local[n].phase # "none"
       THEN Return(n) /\ UNCHANGED dkgBoard
       ELSE \E coefficients \in Polynomials :
              /\ dkgBoard' = [dkgBoard EXCEPT
                                 !.commitments[n] = generate_polynomial(coefficients)]
              /\ mem' = [mem EXCEPT ![n] =
                             [EmptyMem EXCEPT !.my_coefficients = coefficients]]
              /\ Goto(n, "start_file")

\* main.py 224-232: write dkg_<round>.json
DkgStartFile(n) ==
    /\ pc[n] = "start_file"
    /\ dkgFile' = [dkgFile EXCEPT ![n] = DkgFileOf(mem[n].my_coefficients)]
    /\ Goto(n, "start_state")
    /\ UNCHANGED <<mem, local, hsm, dkgBoard, faults, ceremonyVars>>

\* main.py 234-239: phase = 'committed'
DkgStartState(n) ==
    /\ pc[n] = "start_state"
    /\ local' = [local EXCEPT ![n].phase = "committed"]
    /\ Return(n)
    /\ UNCHANGED <<hsm, dkgFile, dkgBoard, faults, ceremonyVars>>

\* main.py 282-347: dkg-distribute up to the posts of the encrypted shares
DkgDistributePost(n) ==
    /\ pc[n] = "idle"
    /\ \A m \in Nodes : pc[m] \notin DkgPcs
    /\ UNCHANGED <<local, hsm, dkgFile, faults, ceremonyVars>>
    /\ IF local[n].phase = "distributed"
       THEN Return(n) /\ UNCHANGED dkgBoard
       ELSE IF local[n].phase # "committed"
       THEN Return(n) /\ UNCHANGED dkgBoard
       ELSE /\ dkgBoard' = [dkgBoard EXCEPT !.shares[n] = [t \in Nodes |->
                               IF t \in dkgBoard.identities \ {n}
                               THEN compute_share_for(dkgFile[n].coefficients, t)
                               ELSE dkgBoard.shares[n][t]]]
            /\ Goto(n, "dist_state")
            /\ UNCHANGED mem

\* main.py 349-351: phase = 'distributed'
DkgDistributeState(n) ==
    /\ pc[n] = "dist_state"
    /\ local' = [local EXCEPT ![n].phase = "distributed"]
    /\ Return(n)
    /\ UNCHANGED <<hsm, dkgFile, dkgBoard, faults, ceremonyVars>>

\* main.py 366-394: dkg-finalize up to the loaded commitments
DkgFinalizeLoad(n) ==
    /\ pc[n] = "idle"
    /\ \A m \in Nodes : pc[m] \notin DkgPcs
    /\ UNCHANGED <<local, hsm, dkgFile, dkgBoard, faults, ceremonyVars>>
    /\ IF local[n].phase = "finalized"
       THEN Return(n)
       ELSE IF ~dkgFile[n].exists
       THEN Return(n)
       ELSE /\ mem' = [mem EXCEPT ![n] = [EmptyMem EXCEPT
                         !.my_coefficients = dkgFile[n].coefficients,
                         !.my_commitments = receive_commitment(dkgFile[n].commitments),
                         !.other_commitments = [j \in Nodes |->
                             IF j = n THEN <<>>
                             ELSE receive_commitment(dkgBoard.commitments[j])]]]
            /\ Goto(n, "dkgfin_verify")

\* a count that is one share short
ExpectedShares_short == TotalNodes - 2

\* main.py 401: expected = dkg_data['total_nodes'] - 1
ExpectedShares == TotalNodes - 1

\* the senders with a share file addressed to node n
SharesTo(b, n) == {s \in Nodes : b.shares[s][n] # NoInt}

\* a share that is decrypted and stored without the Feldman check
decrypt_and_verify_share_unverified(n, other_commitments, sender, value) ==
    value # BadCipher

\* main.py 407-426: decrypt and verify one share file
decrypt_and_verify_share(n, other_commitments, sender, value) ==
    /\ value # BadCipher
    /\ receive_share(n, other_commitments[sender], value)

\* what node n finds in the share files addressed to it: the value the sender
\* posted, a file that does not decrypt, or a value that is not f_s(n)
ShareReads(b, n) ==
    {[s \in Nodes |->
        IF s \notin bad THEN b.shares[s][n]
        ELSE IF garbled THEN BadCipher ELSE (b.shares[s][n] + 1) % ORDER] :
     bad \in SUBSET {s \in Nodes : b.shares[s][n] # NoInt}, garbled \in BOOLEAN}

\* main.py 396-458: count the share files, decrypt and verify them all, abort on
\* any failure, else FeldmanDKG.finalize
DkgFinalizeVerify(n) ==
    /\ pc[n] = "dkgfin_verify"
    /\ UNCHANGED <<local, hsm, dkgFile, dkgBoard, faults, ceremonyVars>>
    /\ \E seen \in ShareReads(dkgBoard, n) :
       LET my_shares == SharesTo(dkgBoard, n)
           verified == {s \in my_shares :
               decrypt_and_verify_share(n, mem[n].other_commitments, s, seen[s])}
           received_shares == [s \in Nodes |->
               IF s \in verified THEN seen[s] ELSE NoInt]
           f == finalize(n, mem[n].my_coefficients, mem[n].my_commitments,
                         received_shares, mem[n].other_commitments)
       IN IF Cardinality(my_shares) < ExpectedShares
          THEN Exit(n, "dkg_finalize_insufficient")
          ELSE IF verified # my_shares
          THEN Exit(n, "dkg_finalize_aborted")
          ELSE /\ mem' = [mem EXCEPT ![n].received_shares = received_shares,
                                     ![n].final_share = f.final_share,
                                     ![n].group_public_key = f.group_pk]
               /\ Goto(n, "dkgfin_store")

\* main.py 461-464: HardwareToken.store_dkg_share
DkgFinalizeStore(n) ==
    /\ pc[n] = "dkgfin_store"
    /\ hsm' = [hsm EXCEPT ![n].share = mem[n].final_share]
    /\ Goto(n, "dkgfin_state")
    /\ UNCHANGED <<mem, local, dkgFile, dkgBoard, faults, ceremonyVars>>

\* main.py 466-470: phase = 'finalized', my_share_stored, group_pubkey_hex
DkgFinalizeState(n) ==
    /\ pc[n] = "dkgfin_state"
    /\ local' = [local EXCEPT ![n].phase = "finalized",
                              ![n].my_share_stored = TRUE,
                              ![n].group_pubkey_hex =
                                  point_to_hex(mem[n].group_public_key)]
    /\ Exit(n, "dkg_finalize_done")
    /\ UNCHANGED <<hsm, dkgFile, dkgBoard, faults, ceremonyVars>>

\* ------------------------------------------------------------ environment
\* the process of node n is killed in the middle of a command
Crash(n) ==
    /\ pc[n] # "idle"
    /\ faults.crash < MaxCrashes
    /\ faults' = [faults EXCEPT !.crash = @ + 1]
    /\ Exit(n, "crash")
    /\ UNCHANGED <<local, hsm, signerFile, board, group_pubkey, postedR,
                   derivations, emitted>>

\* state.json of node n is put back to the snapshot taken after the DKG
RestoreLocal(n) ==
    /\ faults.restore < MaxRestores
    /\ local[n].used_nonces # None
    /\ faults' = [faults EXCEPT !.restore = @ + 1]
    /\ local' = [local EXCEPT ![n] = [@ EXCEPT !.used_nonces = None,
                                                !.nonce_derivations = NoInt]]
    /\ last' = NoLast
    /\ UNCHANGED <<pc, mem, hsm, signerFile, board, group_pubkey,
                   postedR, derivations, emitted>>

\* the board is rewound to a history without node n's commitment
RewindBoard(n) ==
    /\ faults.rewind < MaxRewinds
    /\ board.commitments[n] # None
    /\ faults' = [faults EXCEPT !.rewind = @ + 1]
    /\ board' = [board EXCEPT !.commitments[n] = None]
    /\ last' = NoLast
    /\ UNCHANGED <<pc, mem, local, hsm, signerFile, group_pubkey,
                   postedR, derivations, emitted>>

\* the nodes whose sign-approve runs are followed under faults; a node's
\* approve touches only its own state.json, HSM and board path, so the last
\* node is left idle here
Approvers == Nodes \ {TotalNodes}

\* sign-approve under crashes, state restores, board rewinds, HSM store
\* failures and failed posts
Next ==
    /\ UNCHANGED <<dkgFile, dkgBoard, calc>>
    /\ \E n \in Approvers :
        \/ ApproveBegin(n)
        \/ RecoverStore(n)
        \/ RecoverLocal(n)
        \/ DeriveDestroy(n)
        \/ DeriveCreate(n)
        \/ DeriveRecord(n)
        \/ ApproveStore(n)
        \/ ApproveLocal(n)
        \/ ApprovePost(n)
        \/ ApproveSave(n)
        \/ Crash(n)
        \/ RestoreLocal(n)
        \/ RewindBoard(n)

Spec == Init /\ [][Next]_vars

\* the signing ceremony: approve and concurrent, repeated sign-finalize runs
\* of all nodes, with no crash, restore, rewind or device failure
InitFinalize ==
    InitWith([crash |-> MaxCrashes, restore |-> MaxRestores, rewind |-> MaxRewinds,
              hsm |-> MaxHsmFaults, post |-> MaxPostFaults,
              delete |-> MaxDeletes,
                  dkgcrash |-> MaxDkgCrashes])

NextFinalize ==
    /\ UNCHANGED <<dkgFile, dkgBoard, calc>>
    /\ \E n \in Nodes :
        \/ ApproveBegin(n)
        \/ DeriveDestroy(n)
        \/ DeriveCreate(n)
        \/ DeriveRecord(n)
        \/ ApproveStore(n)
        \/ ApproveLocal(n)
        \/ ApprovePost(n)
        \/ ApproveSave(n)
        \/ FinalizeBegin(n)
        \/ FinalizeLock(n)
        \/ FinalizeCompute(n)
        \/ FinalizePost(n)
        \/ FinalizeCombine(n)
        \/ FinalizeResult(n)

SpecFinalize == InitFinalize /\ [][NextFinalize]_vars

\* the ceremony after the DKG of one group key
InitFinalizeLive == InitFinalize /\ group_pubkey = point_mul(2, G)

\* no process is killed or suspended: a command that has started runs to its
\* end, and every node runs sign-finalize again and again (the retry after
\* "waiting"); whether and when a node approves is left open
SpecFinalizeLive ==
    /\ InitFinalizeLive
    /\ [][NextFinalize]_vars
    /\ \A n \in Nodes :
          WF_vars(/\ UNCHANGED <<dkgFile, dkgBoard, calc>>
                  /\ \/ DeriveDestroy(n) \/ DeriveCreate(n) \/ DeriveRecord(n)
                     \/ ApproveStore(n) \/ ApproveLocal(n) \/ ApprovePost(n)
                     \/ ApproveSave(n)
                     \/ FinalizeBegin(n) \/ FinalizeLock(n) \/ FinalizeCompute(n)
                     \/ FinalizePost(n) \/ FinalizeCombine(n) \/ FinalizeResult(n))

\* the nodes deployed with HSM_MODE=production (the default); the others run
\* with HSM_MODE=demo
ProductionNodes == {TotalNodes}

HsmMode(n) == IF n \in ProductionNodes THEN "production" ELSE "demo"

\* a deployment of demo and production nodes after the DKG; processes may be
\* killed, nothing else fails
InitProd ==
    InitWith([crash |-> 0, restore |-> MaxRestores, rewind |-> MaxRewinds,
              hsm |-> MaxHsmFaults, post |-> MaxPostFaults, delete |-> MaxDeletes,
              dkgcrash |-> MaxDkgCrashes])

NextProd ==
    /\ UNCHANGED <<dkgFile, dkgBoard, calc>>
    /\ \E n \in Nodes :
        \/ ApproveBeginIn(n, HsmMode(n))
        \/ DeriveDestroy(n)
        \/ DeriveCreate(n)
        \/ DeriveRecord(n)
        \/ ApproveStore(n)
        \/ ApproveLocal(n)
        \/ ApprovePost(n)
        \/ ApproveSave(n)
        \/ Crash(n)

SpecProd == InitProd /\ [][NextProd]_vars

\* the process of node n is killed in the middle of a DKG command
DkgCrash(n) ==
    /\ pc[n] \in DkgPcs
    /\ faults.dkgcrash < MaxDkgCrashes
    /\ faults' = [faults EXCEPT !.dkgcrash = @ + 1]
    /\ Exit(n, "crash")
    /\ UNCHANGED <<local, hsm, dkgFile, dkgBoard, ceremonyVars>>

\* the DKG round from freshly initialised nodes, with process crashes and
\* share files that are garbled or carry a wrong value; the last node has run
\* init before the round starts or runs it during the round
InitDkg ==
    /\ pc = [n \in Nodes |-> "idle"]
    /\ mem = [n \in Nodes |-> EmptyMem]
    /\ \E late \in SUBSET {TotalNodes} :
         /\ local = [n \in Nodes |->
                [NodeState EXCEPT !.identity_key_posted = (n \notin late)]]
         /\ hsm = [n \in Nodes |->
                [counter |-> IF n \in late THEN NoInt ELSE 0,
                 seed |-> IF n \in late THEN NoInt ELSE 2 * n + 1,
                 nonce |-> None, deriv |-> {}, share |-> NoInt]]
         /\ dkgBoard = [identities |-> Nodes \ late,
                        commitments |-> [n \in Nodes |-> <<>>],
                        shares |-> NoShares]
    /\ group_pubkey = NoInt
    /\ signerFile = [n \in Nodes |-> NoSigner]
    /\ board = [commitments |-> NoHexes, session |-> NoSession,
                partials |-> NoPoints, result |-> NoResult,
                partials_over |-> [n \in Nodes |-> <<>>]]
    /\ faults = [crash |-> 0, restore |-> MaxRestores, rewind |-> MaxRewinds,
                 hsm |-> MaxHsmFaults, post |-> MaxPostFaults, delete |-> MaxDeletes,
                 dkgcrash |-> 0]
    /\ last = NoLast
    /\ postedR = [n \in Nodes |-> {}]
    /\ derivations = [n \in Nodes |-> {}]
    /\ emitted = [n \in Nodes |-> {}]
    /\ dkgFile = [n \in Nodes |-> NoDkgFile]
    /\ calc = NoCalc

NextDkg ==
    \E n \in Nodes :
          \/ InitBegin(n)
          \/ InitCounter(n)
          \/ InitPost(n)
          \/ DkgStartPost(n)
          \/ DkgStartFile(n)
          \/ DkgStartState(n)
          \/ DkgDistributePost(n)
          \/ DkgDistributeState(n)
          \/ DkgFinalizeLoad(n)
          \/ DkgFinalizeVerify(n)
          \/ DkgFinalizeStore(n)
          \/ DkgFinalizeState(n)
          \/ DkgCrash(n)

SpecDkg == InitDkg /\ [][NextDkg]_vars

\* the round of honest nodes: no process is killed and no share file is
\* altered; every node runs init, then dkg-start, then dkg-distribute, then
\* dkg-finalize again and again while shares are missing, in any order across
\* the nodes
NextDkgLive ==
    \E n \in Nodes :
          \/ ~local[n].identity_key_posted /\ InitBegin(n)
          \/ InitCounter(n)
          \/ InitPost(n)
          \/ local[n].identity_key_posted /\ local[n].phase = "none" /\ DkgStartPost(n)
          \/ DkgStartFile(n)
          \/ DkgStartState(n)
          \/ local[n].phase = "committed" /\ DkgDistributePost(n)
          \/ DkgDistributeState(n)
          \/ local[n].phase = "distributed" /\ DkgFinalizeLoad(n)
          \/ DkgFinalizeVerify(n) /\ last' # <<n, "dkg_finalize_aborted">>
          \/ DkgFinalizeStore(n)
          \/ DkgFinalizeState(n)

\* every node gets to run its next command and to finish it
SpecDkgLive ==
    /\ InitDkg
    /\ [][NextDkgLive]_vars
    /\ \A n \in Nodes :
          SF_vars(\/ ~local[n].identity_key_posted /\ InitBegin(n)
                  \/ InitCounter(n) \/ InitPost(n)
                  \/ local[n].identity_key_posted /\ local[n].phase = "none"
                        /\ DkgStartPost(n)
                  \/ DkgStartFile(n) \/ DkgStartState(n)
                  \/ local[n].phase = "committed" /\ DkgDistributePost(n)
                  \/ DkgDistributeState(n)
                  \/ local[n].phase = "distributed" /\ DkgFinalizeLoad(n)
                  \/ DkgFinalizeVerify(n) /\ last' # <<n, "dkg_finalize_aborted">>
                  \/ DkgFinalizeStore(n) \/ DkgFinalizeState(n))

\* state.json of node n is deleted; the next command recreates the default
\* NodeState (state.py 49-50)
DeleteState(n) ==
    /\ pc[n] = "idle"
    /\ faults.delete < MaxDeletes
    /\ local[n] # NodeState
    /\ faults' = [faults EXCEPT !.delete = @ + 1]
    /\ local' = [local EXCEPT ![n] = NodeState]
    /\ last' = NoLast
    /\ UNCHANGED <<pc, mem, hsm, dkgFile, dkgBoard, ceremonyVars>>

\* the nodes followed in the life of the HSM nonce counter
HsmNodes == {1, TotalNodes}

\* node 1 and node 2 after the DKG, node 1 with an init command that was killed
\* between its identity post and its state update; the last node before its
\* first init: it has taken part in the DKG up to dkg-distribute, its HSM has
\* no nonce objects and no share
InitHsm ==
    /\ pc = [n \in Nodes |-> "idle"]
    /\ mem = [n \in Nodes |-> EmptyMem]
    /\ group_pubkey = point_mul(2, G)
    /\ local = [n \in Nodes |->
           IF n = TotalNodes THEN [NodeState EXCEPT !.phase = "distributed"]
           ELSE [NodeState EXCEPT !.identity_key_posted = (n # 1), !.phase = "finalized",
                                  !.my_share_stored = TRUE,
                                  !.group_pubkey_hex = point_to_hex(point_mul(2, G))]]
    /\ hsm = [n \in Nodes |->
           IF n = TotalNodes
           THEN [counter |-> NoInt, seed |-> NoInt, nonce |-> None, deriv |-> {},
                 share |-> NoInt]
           ELSE [counter |-> 0, seed |-> 2 * n + 1, nonce |-> None, deriv |-> {},
                 share |-> PolyShare(2, 3, n)]]
    /\ signerFile = [n \in Nodes |-> NoSigner]
    /\ board = [commitments |-> NoHexes, session |-> NoSession,
                partials |-> NoPoints, result |-> NoResult,
                partials_over |-> [n \in Nodes |-> <<>>]]
    /\ faults = [crash |-> 0, restore |-> MaxRestores, rewind |-> MaxRewinds,
                 hsm |-> MaxHsmFaults, post |-> MaxPostFaults, delete |-> 0,
                 dkgcrash |-> MaxDkgCrashes]
    /\ last = NoLast
    /\ postedR = [n \in Nodes |-> {}]
    /\ derivations = [n \in Nodes |-> {}]
    /\ emitted = [n \in Nodes |-> {}]
    /\ dkgFile = [n \in Nodes |-> DkgFileOf(DkgPoly(2, n))]
    /\ dkgBoard = [identities |-> Nodes \ {TotalNodes},
                   commitments |-> [n \in Nodes |-> generate_polynomial(DkgPoly(2, n))],
                   shares |-> [s \in Nodes |-> [t \in Nodes |->
                       IF s = t \/ t = TotalNodes THEN NoInt
                       ELSE compute_share_for(DkgPoly(2, s), t)]]]
    /\ calc = NoCalc

\* init and sign-approve on the same HSM, with crashes and a deleted state.json
NextHsm ==
    \E n \in HsmNodes :
        \/ InitBegin(n)
        \/ InitCounter(n)
        \/ InitPost(n)
        \/ DeleteState(n)
        \/ /\ UNCHANGED <<dkgFile, dkgBoard, calc>>
           /\ \/ ApproveBegin(n)
              \/ DeriveDestroy(n)
              \/ DeriveCreate(n)
              \/ DeriveRecord(n)
              \/ ApproveStore(n)
              \/ ApproveLocal(n)
              \/ ApprovePost(n)
              \/ ApproveSave(n)
              \/ Crash(n)

SpecHsm == InitHsm /\ [][NextHsm]_vars

\* two processes of the first node that call derive_nonce on its HSM at the
\* same time; pc[p] and mem[p] are the position and the variables of process p
Callers == {1, 2}

\* the counter object whose handle process p holds was destroyed by another
\* process after p read it: that process is past its destroy and computed the
\* same new value, so it read the same object
HandleStale(p) ==
    \E q \in Callers \ {p} :
        /\ pc[q] \in {"race_create", "race_returned"}
        /\ mem[q].counter = mem[p].counter

\* hardware.py 521-480: the seed check, get_key(NONCE_COUNTER) and the read of
\* its value; get_key raises when no counter object exists
RaceRead(p) ==
    /\ pc[p] = "idle"
    /\ IF ~has_nonce_master_seed(hsm[1]) \/ hsm[1].counter = NoInt
       THEN pc' = [pc EXCEPT ![p] = "race_raised"] /\ UNCHANGED mem
       ELSE /\ pc' = [pc EXCEPT ![p] = "race_destroy"]
            /\ mem' = [mem EXCEPT ![p].counter = hsm[1].counter + 1]
    /\ UNCHANGED <<local, hsm, faults, last, dkgFile, dkgBoard, ceremonyVars>>

\* hardware.py 483: current_key.destroy(); raises on a handle whose object is gone
RaceDestroy(p) ==
    /\ pc[p] = "race_destroy"
    /\ IF HandleStale(p)
       THEN /\ pc' = [pc EXCEPT ![p] = "race_raised"]
            /\ mem' = [mem EXCEPT ![p].counter = NoInt]
            /\ UNCHANGED hsm
       ELSE /\ pc' = [pc EXCEPT ![p] = "race_create"]
            /\ hsm' = [hsm EXCEPT ![1].counter = NoInt]
            /\ UNCHANGED mem
    /\ UNCHANGED <<local, faults, last, dkgFile, dkgBoard, ceremonyVars>>

\* hardware.py 487-497: create_object with the new value, which is returned
RaceCreate(p) ==
    /\ pc[p] = "race_create"
    /\ hsm' = [hsm EXCEPT ![1].counter = mem[p].counter]
    /\ pc' = [pc EXCEPT ![p] = "race_returned"]
    /\ UNCHANGED <<mem, local, faults, last, dkgFile, dkgBoard, ceremonyVars>>

\* the first node after init and DKG, its counter at any value it can have
InitRace ==
    /\ pc = [n \in Nodes |-> "idle"]
    /\ mem = [n \in Nodes |-> EmptyMem]
    /\ group_pubkey = point_mul(2, G)
    /\ local = [n \in Nodes |->
           [NodeState EXCEPT !.identity_key_posted = TRUE, !.phase = "finalized",
                             !.my_share_stored = TRUE,
                             !.group_pubkey_hex = point_to_hex(point_mul(2, G))]]
    /\ \E c0 \in 0..MaxCounter, seed \in {3, 5} :
         /\ hsm = [n \in Nodes |->
                [counter |-> IF n = 1 THEN c0 ELSE 0,
                 seed |-> IF n = 1 THEN seed ELSE 2 * n + 1,
                 nonce |-> None, deriv |-> {}, share |-> PolyShare(2, 3, n)]]
         /\ calc = [NoCalc EXCEPT !.op = "race", !.input = c0]
    /\ signerFile = [n \in Nodes |-> NoSigner]
    /\ board = [commitments |-> NoHexes, session |-> NoSession,
                partials |-> NoPoints, result |-> NoResult,
                partials_over |-> [n \in Nodes |-> <<>>]]
    /\ faults = [crash |-> MaxCrashes, restore |-> MaxRestores, rewind |-> MaxRewinds,
                 hsm |-> MaxHsmFaults, post |-> MaxPostFaults, delete |-> MaxDeletes,
                 dkgcrash |-> MaxDkgCrashes]
    /\ last = NoLast
    /\ postedR = [n \in Nodes |-> {}]
    /\ derivations = [n \in Nodes |-> {}]
    /\ emitted = [n \in Nodes |-> {}]
    /\ dkgFile = [n \in Nodes |-> DkgFileOf(DkgPoly(2, n))]
    /\ dkgBoard = [identities |-> Nodes,
                   commitments |-> [n \in Nodes |-> generate_polynomial(DkgPoly(2, n))],
                   shares |-> NoShares]

NextRace == \E p \in Callers : RaceRead(p) \/ RaceDestroy(p) \/ RaceCreate(p)

SpecRace == InitRace /\ [][NextRace]_vars

\* the signer engine alone: any polynomial of degree Threshold - 1, any
\* Threshold participants, any nonzero nonces
InitSign ==
    /\ InitCeremony([crash |-> MaxCrashes, restore |-> MaxRestores, rewind |-> MaxRewinds,
                     hsm |-> MaxHsmFaults, post |-> MaxPostFaults,
                     delete |-> MaxDeletes,
                  dkgcrash |-> MaxDkgCrashes])
    /\ group_pubkey = point_mul(2, G)
    /\ \E S \in {T \in SUBSET Nodes : Cardinality(T) = Threshold} :
       \E coefficients \in [1..Threshold -> Scalars] :
       \E k \in [S -> Scalars \ {0}] :
          calc = [NoCalc EXCEPT !.participants = SortedSeq(S),
                                !.coefficients = coefficients,
                                !.k = [j \in Nodes |-> IF j \in S THEN k[j] ELSE NoInt]]

\* crypto.py 237-328 for every participant, then combine and verify
SignCombine ==
    /\ ~calc.done
    /\ LET sig == SignerRun(calc)
       IN calc' = [calc EXCEPT !.R = sig.R, !.s = sig.s, !.done = TRUE,
                      !.valid = verify_signature(sig.R, sig.s,
                                    point_mul(calc.coefficients[1], G), MsgHash)]
    /\ UNCHANGED <<signVars, dkgFile, dkgBoard>>

\* combine_signatures and verify_signature on the partial signatures of every
\* (t-1)-subset of the participants, with the aggregate R of all t
SignCombineShort ==
    /\ calc.done /\ calc.short = {}
    /\ calc' = [calc EXCEPT !.short =
          {LET sig == SignerRunOf(calc, kept)
           IN [kept |-> kept, omitted |-> sig.omitted,
               valid |-> verify_signature(sig.R, sig.s,
                             point_mul(calc.coefficients[1], G), MsgHash)] :
           kept \in {T \in SUBSET Range(calc.participants) :
                        Cardinality(T) = Threshold - 1}}]
    /\ UNCHANGED <<signVars, dkgFile, dkgBoard>>

NextSign == SignCombine \/ SignCombineShort

SpecSign == InitSign /\ [][NextSign]_vars

\* ------------------------------------------------------------ persistence
RECURSIVE format_x_decimal(_)
\* digits in base ten
format_x_decimal(v) ==
    IF v < 10 THEN <<v>> ELSE format_x_decimal(v \div 10) \o <<v % 10>>

RECURSIVE format_x(_)
\* format(v, 'x'): the hexadecimal digits of v, most significant first
format_x(v) == IF v < 16 THEN <<v>> ELSE format_x(v \div 16) \o <<v % 16>>

RECURSIVE int_16(_)
\* int(d, 16)
int_16(d) == IF d = <<>> THEN 0 ELSE 16 * int_16(SubSeq(d, 1, Len(d) - 1)) + d[Len(d)]

RECURSIVE bytes_hex(_)
\* bytes.hex(): two digits per byte
bytes_hex(b) ==
    IF b = <<>> THEN <<>> ELSE <<Head(b) \div 16, Head(b) % 16>> \o bytes_hex(Tail(b))

RECURSIVE bytes_fromhex(_)
\* bytes.fromhex()
bytes_fromhex(h) ==
    IF Len(h) < 2 THEN <<>> ELSE <<16 * h[1] + h[2]>> \o bytes_fromhex(SubSeq(h, 3, Len(h)))

\* SigningRound.to_dict; a map has None where the dict has no key
SigningRound_to_dict(session) ==
    [request_id |-> session.request_id,
     message_hash |-> bytes_hex(session.message_hash),
     my_nonce_k |-> IF session.my_nonce_k # NoInt THEN format_x(session.my_nonce_k) ELSE None,
     nonce_commitments |-> [j \in Nodes |->
         IF session.nonce_commitments[j] = NoInt THEN None
         ELSE point_to_hex(session.nonce_commitments[j])],
     partial_signatures |-> [j \in Nodes |->
         IF session.partial_signatures[j] = NoInt THEN None
         ELSE format_x(session.partial_signatures[j])]]

\* SigningRound.from_dict
SigningRound_from_dict(data) ==
    [request_id |-> data.request_id,
     message_hash |-> bytes_fromhex(data.message_hash),
     my_nonce_k |-> IF data.my_nonce_k # None THEN int_16(data.my_nonce_k) ELSE NoInt,
     nonce_commitments |-> [j \in Nodes |->
         IF data.nonce_commitments[j] = None THEN NoInt
         ELSE hex_to_point(data.nonce_commitments[j])],
     partial_signatures |-> [j \in Nodes |->
         IF data.partial_signatures[j] = None THEN NoInt
         ELSE int_16(data.partial_signatures[j])]]

\* ThresholdSigner.to_json
ThresholdSigner_to_json(signer) ==
    [node_id |-> signer.node_id,
     my_index |-> signer.my_index,
     my_share |-> format_x(signer.my_share),
     group_pubkey |-> point_to_hex(signer.group_pubkey),
     sessions |-> SigningRound_to_dict(signer.sessions)]

\* ThresholdSigner.from_json
ThresholdSigner_from_json(obj) ==
    [node_id |-> obj.node_id,
     my_index |-> obj.my_index,
     my_share |-> int_16(obj.my_share),
     group_pubkey |-> hex_to_point(obj.group_pubkey),
     sessions |-> SigningRound_from_dict(obj.sessions)]

\* signer states as create_nonce_commitment_from_k, receive_nonce_commitment and
\* compute_partial_signature leave them: one session, the own commitment in
\* the map, the nonce wiped or not, the own partial present or not
SignerStates ==
    {[node_id |-> <<"node", n>>, my_index |-> n, my_share |-> share, group_pubkey |-> P,
      sessions |-> [request_id |-> "req", message_hash |-> m, my_nonce_k |-> k,
                    nonce_commitments |-> [j \in Nodes |-> IF j = n THEN R ELSE other],
                    partial_signatures |-> [j \in Nodes |-> IF j = n THEN s_i ELSE NoInt]]] :
     n \in Nodes, share \in {0, ORDER - 1}, P \in {IDENTITY, 2, ORDER - 2},
     m \in {<<MsgHash>>, <<171, 0>>}, k \in {NoInt, 0, 7}, R \in {IDENTITY, 3, ORDER - 3},
     other \in {NoInt, ORDER - 3}, s_i \in {NoInt, 0, ORDER - 1}}

\* the compressed encodings of the curve's points and of the identity
WellFormedHex ==
    {<<"00", 0>>} \cup {<<prefix, x>> : prefix \in {"02", "03"}, x \in 1..((ORDER - 1) \div 2)}

\* commitment lists as a sender can post them, of length t and of other lengths
CommitmentLists ==
    UNION {[1..len -> {<<"02", 1>>, <<"03", 5>>}] : len \in 1..(Threshold + 1)}

\* the conversions on their own: one input, one call
InitCodec ==
    /\ InitCeremony([crash |-> MaxCrashes, restore |-> MaxRestores, rewind |-> MaxRewinds,
                     hsm |-> MaxHsmFaults, post |-> MaxPostFaults, delete |-> MaxDeletes,
                     dkgcrash |-> MaxDkgCrashes])
    /\ group_pubkey = point_mul(2, G)
    /\ \/ \E P \in Scalars : calc = [NoCalc EXCEPT !.op = "point", !.input = P]
       \/ \E h \in WellFormedHex : calc = [NoCalc EXCEPT !.op = "hex", !.input = h]
       \/ \E signer \in SignerStates : calc = [NoCalc EXCEPT !.op = "signer", !.input = signer]
       \/ \E c \in CommitmentLists : calc = [NoCalc EXCEPT !.op = "commitment", !.input = c]
       \/ \E signer \in SignerStates :
          \E S \in {T \in SUBSET Nodes : Cardinality(T) = Threshold} :
             calc = [NoCalc EXCEPT !.op = "partial",
                        !.input = [signer |-> signer, participants |-> SortedSeq(S)]]

\* hex_to_point(point_to_hex(P))
PointRoundTrip ==
    /\ calc.op = "point" /\ ~calc.done
    /\ calc' = [calc EXCEPT !.output = hex_to_point(point_to_hex(calc.input)), !.done = TRUE]
    /\ UNCHANGED <<signVars, dkgFile, dkgBoard>>

\* point_to_hex(hex_to_point(h))
HexRoundTrip ==
    /\ calc.op = "hex" /\ ~calc.done
    /\ calc' = [calc EXCEPT !.output = point_to_hex(hex_to_point(calc.input)), !.done = TRUE]
    /\ UNCHANGED <<signVars, dkgFile, dkgBoard>>

\* ThresholdSigner.from_json(signer.to_json())
SignerRoundTrip ==
    /\ calc.op = "signer" /\ ~calc.done
    /\ calc' = [calc EXCEPT !.done = TRUE,
                   !.output = ThresholdSigner_from_json(ThresholdSigner_to_json(calc.input))]
    /\ UNCHANGED <<signVars, dkgFile, dkgBoard>>

\* FeldmanDKG.receive_commitment of a posted list, then receive_share of every
\* scalar by the first node: what is stored for the sender, and the shares accepted
ReceiveCommitment ==
    /\ calc.op = "commitment" /\ ~calc.done
    /\ LET stored == receive_commitment(calc.input)
       IN calc' = [calc EXCEPT !.done = TRUE,
                      !.output = [stored |-> stored,
                                  accepted |-> {v \in Scalars : receive_share(1, stored, v)}]]
    /\ UNCHANGED <<signVars, dkgFile, dkgBoard>>

\* ThresholdSigner.compute_partial_signature as a method call: session.
\* nonce_commitments[node_id] raises KeyError for a participant without an
\* entry, None + int raises TypeError for a wiped nonce; otherwise the nonce
\* is wiped and the partial recorded under the own node id
ThresholdSigner_compute_partial_signature(signer, participants) ==
    LET session == signer.sessions
    IN IF \E j \in Range(participants) : session.nonce_commitments[j] = NoInt
       THEN [raised |-> "KeyError", s_i |-> NoInt, signer |-> signer]
       ELSE IF session.my_nonce_k = NoInt
       THEN [raised |-> "TypeError", s_i |-> NoInt, signer |-> signer]
       ELSE LET s_i == compute_partial_signature(signer.my_index, session.my_nonce_k,
                           signer.my_share, signer.group_pubkey,
                           session.nonce_commitments, participants, MsgHash)
            IN [raised |-> "no", s_i |-> s_i,
                signer |-> [signer EXCEPT !.sessions.my_nonce_k = NoInt,
                                          !.sessions.partial_signatures[signer.my_index] = s_i]]

\* one call of compute_partial_signature on a loaded signer
ComputePartial ==
    /\ calc.op = "partial" /\ ~calc.done
    /\ calc' = [calc EXCEPT !.done = TRUE,
                   !.output = ThresholdSigner_compute_partial_signature(
                                  calc.input.signer, calc.input.participants)]
    /\ UNCHANGED <<signVars, dkgFile, dkgBoard>>

NextCodec ==
    \/ PointRoundTrip
    \/ HexRoundTrip
    \/ SignerRoundTrip
    \/ ReceiveCommitment
    \/ ComputePartial

SpecCodec == InitCodec /\ [][NextCodec]_vars

\* ------------------------------------------------- inside one node
RETRY_ATTEMPTS == 5     \* Mailbox.RETRY_ATTEMPTS

\* the share files (dkg-finalize) or identities (dkg-distribute) that
\* executor.map hands to the worker threads of the command of calc.input.node
WorkItems ==
    IF calc.input.command = "finalize" THEN Nodes \ {calc.input.node} ELSE Nodes

\* a worker thread takes item w and calls mailbox.read / mailbox.get_identity,
\* which enters Mailbox.sync; the dkg-distribute worker for the own node
\* returns None at once
WorkerSync(w) ==
    /\ calc.op = "threads" /\ w \in WorkItems /\ pc[w] = "idle"
    /\ IF calc.input.command = "distribute" /\ w = calc.input.node
       THEN pc' = [pc EXCEPT ![w] = "w_done"] /\ UNCHANGED mem
       ELSE /\ pc' = [pc EXCEPT ![w] = "w_fetch"]
            /\ mem' = [mem EXCEPT ![w].counter = 0]
    /\ UNCHANGED <<local, hsm, faults, last, dkgFile, dkgBoard, ceremonyVars>>

\* transport.py 55-79: after the fetch, git reset --hard takes index.lock of the
\* shared working tree; with the lock held by another thread the command fails,
\* sync retries, and on the last attempt unlinks the lock file and returns
SyncReset(w) ==
    /\ calc.op = "threads" /\ pc[w] = "w_fetch"
    /\ IF calc.output.index_lock = 0
       THEN /\ calc' = [calc EXCEPT !.output.index_lock = w]
            /\ pc' = [pc EXCEPT ![w] = "w_reset"]
            /\ UNCHANGED mem
       ELSE IF mem[w].counter = RETRY_ATTEMPTS - 1
       THEN /\ calc' = [calc EXCEPT !.output.index_lock = 0]
            /\ pc' = [pc EXCEPT ![w] = "w_read"]
            /\ UNCHANGED mem
       ELSE /\ mem' = [mem EXCEPT ![w].counter = @ + 1]
            /\ UNCHANGED <<pc, calc>>
    /\ UNCHANGED <<signerFile, board, group_pubkey, postedR, derivations, emitted,
                   local, hsm, faults, last, dkgFile, dkgBoard>>

\* transport.py 63-64: the reset ends and git removes its index.lock
SyncDone(w) ==
    /\ calc.op = "threads" /\ pc[w] = "w_reset"
    /\ calc' = [calc EXCEPT !.output.index_lock =
                   IF calc.output.index_lock = w THEN 0 ELSE @]
    /\ pc' = [pc EXCEPT ![w] = "w_read"]
    /\ UNCHANGED <<signerFile, board, group_pubkey, postedR, derivations, emitted,
                   mem, local, hsm, faults, last, dkgFile, dkgBoard>>

\* main.py 309-327 and 411-426 after the read: dkg-distribute encrypts the
\* share and returns; dkg-finalize decrypts and calls dkg.receive_share, which
\* goes on to store the share when the check passes (crypto.py 122-140)
WorkerRead(w) ==
    /\ calc.op = "threads" /\ pc[w] = "w_read"
    /\ IF calc.input.command = "finalize"
          /\ decrypt_and_verify_share(calc.input.node,
                 [j \in Nodes |-> receive_commitment(dkgBoard.commitments[j])],
                 w, calc.input.seen[w])
       THEN pc' = [pc EXCEPT ![w] = "w_store"]
       ELSE pc' = [pc EXCEPT ![w] = "w_done"]
    /\ UNCHANGED <<mem, local, hsm, faults, last, dkgFile, dkgBoard, ceremonyVars>>

\* crypto.py 139: self.state.received_shares[from_node] = share_value, in the
\* worker thread
WorkerStore(w) ==
    /\ calc.op = "threads" /\ pc[w] = "w_store"
    /\ calc' = [calc EXCEPT !.output.received_shares[w] = calc.input.seen[w]]
    /\ pc' = [pc EXCEPT ![w] = "w_done"]
    /\ UNCHANGED <<signerFile, board, group_pubkey, postedR, derivations, emitted,
                   mem, local, hsm, faults, last, dkgFile, dkgBoard>>

\* transport.py 93-107 and 117-125: one turn of the loop of Mailbox.post up to
\* index.add (sync, write, fsync, add); an exception goes to the handler, which
\* resets the working tree, and past the last attempt post raises
PostWrite(p) ==
    /\ calc.op = "post" /\ p = 1 /\ pc[p] \in {"idle", "p_attempt"}
    /\ \E ok \in BOOLEAN :
         IF ok
         THEN /\ pc' = [pc EXCEPT ![p] = "p_commit"]
              /\ calc' = [calc EXCEPT !.output.tree = calc.input.data]
         ELSE /\ calc' = [calc EXCEPT !.output.attempt = @ + 1, !.output.tree = None]
              /\ pc' = [pc EXCEPT ![p] =
                     IF calc.output.attempt + 1 < calc.input.retries
                     THEN "p_attempt" ELSE "p_raised"]
    /\ UNCHANGED <<signerFile, board, group_pubkey, postedR, derivations, emitted,
                   mem, local, hsm, faults, last, dkgFile, dkgBoard>>

\* transport.py 109-112: index.commit; any exception it raises makes post
\* return True
PostCommit(p) ==
    /\ calc.op = "post" /\ pc[p] = "p_commit"
    /\ \E ok \in BOOLEAN :
         IF ok
         THEN pc' = [pc EXCEPT ![p] = "p_push"] /\ UNCHANGED calc
         ELSE /\ pc' = [pc EXCEPT ![p] = "p_returned"]
              /\ calc' = [calc EXCEPT !.output.returned = TRUE]
    /\ UNCHANGED <<signerFile, board, group_pubkey, postedR, derivations, emitted,
                   mem, local, hsm, faults, last, dkgFile, dkgBoard>>

\* transport.py 114-125: origin.push and return True; an exception goes to the
\* handler as in PostWrite
PostPush(p) ==
    /\ calc.op = "post" /\ pc[p] = "p_push"
    /\ \E ok \in BOOLEAN :
         IF ok
         THEN /\ pc' = [pc EXCEPT ![p] = "p_returned"]
              /\ calc' = [calc EXCEPT !.output.remote = calc.output.tree,
                                      !.output.returned = TRUE]
         ELSE /\ calc' = [calc EXCEPT !.output.attempt = @ + 1, !.output.tree = None]
              /\ pc' = [pc EXCEPT ![p] =
                     IF calc.output.attempt + 1 < calc.input.retries
                     THEN "p_attempt" ELSE "p_raised"]
    /\ UNCHANGED <<signerFile, board, group_pubkey, postedR, derivations, emitted,
                   mem, local, hsm, faults, last, dkgFile, dkgBoard>>

\* a lock that is granted whoever holds it
flock_always(l, operation) == TRUE

\* fcntl.flock on state.lock returns: LOCK_EX once no process holds the lock,
\* LOCK_SH once no process holds it exclusively
flock(l, operation) ==
    IF operation = "LOCK_EX" THEN l.ex = 0 /\ l.sh = {} ELSE l.ex = 0

\* state.py 104-110: RigidState.update of process p takes the exclusive lock,
\* loads state.json and applies its updater; json.load raises on a document
\* that is not complete
UpdateLoad(p) ==
    /\ calc.op = "store" /\ p \in Callers /\ pc[p] = "idle"
    /\ flock(calc.output, "LOCK_EX")
    /\ IF ~calc.output.file.complete
       THEN pc' = [pc EXCEPT ![p] = "u_raised"] /\ UNCHANGED calc
       ELSE LET state == calc.output.file.doc
                updater == calc.input.updater[p]
                updated ==
                    IF updater = "derivation"
                    THEN record_nonce_derivation(state, p, <<"02", p>>)
                    ELSE IF updater = "use"
                    THEN record_nonce_use(state, <<"03", p>>)
                    ELSE [state EXCEPT !.phase = "distributed"]
            IN /\ calc' = [calc EXCEPT !.output.ex = p, !.output.state[p] = updated]
               /\ pc' = [pc EXCEPT ![p] = "u_open"]
    /\ UNCHANGED <<signerFile, board, group_pubkey, postedR, derivations, emitted,
                   mem, local, hsm, faults, last, dkgFile, dkgBoard>>

\* state.py 54-55: open(tmp, 'w') creates or truncates state.tmp
SaveOpen(p) ==
    /\ calc.op = "store" /\ pc[p] = "u_open"
    /\ calc' = [calc EXCEPT !.output.tmp =
                   [exists |-> TRUE, doc |-> calc.output.state[p], complete |-> FALSE]]
    /\ pc' = [pc EXCEPT ![p] = "u_flush"]
    /\ UNCHANGED <<signerFile, board, group_pubkey, postedR, derivations, emitted,
                   mem, local, hsm, faults, last, dkgFile, dkgBoard>>

\* state.py 56-58: json.dump, flush, fsync: the document of p is complete in
\* state.tmp, unless another process truncated or moved the file meanwhile
SaveFlush(p) ==
    /\ calc.op = "store" /\ pc[p] = "u_flush"
    /\ calc' = [calc EXCEPT !.output.tmp.complete =
                   IF calc.output.tmp.exists /\ calc.output.tmp.doc = calc.output.state[p]
                   THEN TRUE ELSE @]
    /\ pc' = [pc EXCEPT ![p] = "u_replace"]
    /\ UNCHANGED <<signerFile, board, group_pubkey, postedR, derivations, emitted,
                   mem, local, hsm, faults, last, dkgFile, dkgBoard>>

\* state.py 59 and the end of the with block of update: os.replace(tmp,
\* state_file), which raises when state.tmp is gone, then the lock is released
SaveReplace(p) ==
    /\ calc.op = "store" /\ pc[p] = "u_replace"
    /\ IF ~calc.output.tmp.exists
       THEN /\ pc' = [pc EXCEPT ![p] = "u_raised"]
            /\ calc' = [calc EXCEPT !.output.ex = IF @ = p THEN 0 ELSE @]
       ELSE /\ pc' = [pc EXCEPT ![p] = "u_done"]
            /\ calc' = [calc EXCEPT
                   !.output.file = [doc |-> calc.output.tmp.doc,
                                    complete |-> calc.output.tmp.complete],
                   !.output.tmp = [exists |-> FALSE, doc |-> NodeState, complete |-> FALSE],
                   !.output.ex = IF @ = p THEN 0 ELSE @]
    /\ UNCHANGED <<signerFile, board, group_pubkey, postedR, derivations, emitted,
                   mem, local, hsm, faults, last, dkgFile, dkgBoard>>

\* state.py 63-65: RigidState.load of process q takes the shared lock
LoadLock(q) ==
    /\ calc.op = "store" /\ q \in Nodes \ Callers /\ pc[q] = "idle"
    /\ flock(calc.output, "LOCK_SH")
    /\ calc' = [calc EXCEPT !.output.sh = @ \cup {q}]
    /\ pc' = [pc EXCEPT ![q] = "l_read"]
    /\ UNCHANGED <<signerFile, board, group_pubkey, postedR, derivations, emitted,
                   mem, local, hsm, faults, last, dkgFile, dkgBoard>>

\* state.py 66-67: the read of state.json under the shared lock, then the lock
\* is released; the process may load again
LoadRead(q) ==
    /\ calc.op = "store" /\ pc[q] = "l_read"
    /\ calc' = [calc EXCEPT !.output.sh = @ \ {q},
                            !.output.observed = @ \cup {calc.output.file}]
    /\ pc' = [pc EXCEPT ![q] = "idle"]
    /\ UNCHANGED <<signerFile, board, group_pubkey, postedR, derivations, emitted,
                   mem, local, hsm, faults, last, dkgFile, dkgBoard>>

\* one node after the other nodes' commitments and shares are posted: the
\* thread pool of its dkg-distribute or dkg-finalize; or two processes of the
\* node inside RigidState.update and a third inside RigidState.load; or one
\* call of Mailbox.post
InitIntra ==
    /\ InitCeremony([crash |-> MaxCrashes, restore |-> MaxRestores, rewind |-> MaxRewinds,
                     hsm |-> MaxHsmFaults, post |-> MaxPostFaults, delete |-> MaxDeletes,
                     dkgcrash |-> MaxDkgCrashes])
    /\ \/ \E n \in Nodes, command \in {"distribute", "finalize"} :
          \E seen \in ShareReads(dkgBoard, n) :
             calc = [NoCalc EXCEPT !.op = "threads",
                        !.input = [node |-> n, command |-> command, seen |-> seen],
                        !.output = [index_lock |-> 0, received_shares |-> NoPoints]]
       \/ \E updater \in [Callers -> {"derivation", "use", "phase"}] :
             calc = [NoCalc EXCEPT !.op = "store",
                        !.input = [updater |-> updater, state |-> local[1]],
                        !.output = [file |-> [doc |-> local[1], complete |-> TRUE],
                                    tmp |-> [exists |-> FALSE, doc |-> NodeState,
                                             complete |-> FALSE],
                                    ex |-> 0, sh |-> {},
                                    state |-> [p \in Callers |-> NodeState],
                                    observed |-> {}]]
       \/ \E retries \in {1, 2, RETRY_ATTEMPTS}, data \in {<<"02", 1>>, <<"03", 5>>} :
             calc = [NoCalc EXCEPT !.op = "post",
                        !.input = [retries |-> retries, data |-> data],
                        !.output = [attempt |-> 0, tree |-> None, remote |-> None,
                                    returned |-> FALSE]]

NextIntra ==
    \E w \in Nodes :
        \/ WorkerSync(w)
        \/ SyncReset(w)
        \/ SyncDone(w)
        \/ WorkerRead(w)
        \/ WorkerStore(w)
        \/ UpdateLoad(w)
        \/ SaveOpen(w)
        \/ SaveFlush(w)
        \/ SaveReplace(w)
        \/ LoadLock(w)
        \/ LoadRead(w)
        \/ PostWrite(w)
        \/ PostCommit(w)
        \/ PostPush(w)

SpecIntra == InitIntra /\ [][NextIntra]_vars

\* ------------------------------------------------------------------ claims

\* C1: a node produces at most one nonce commitment per request: over all
\* sign-approve calls, crashes, state restores and board rewinds, at most one R
\* value is ever posted at signing/<id>/commitments/<node>.
C1_AtMostOneCommitment ==
    \A n \in Nodes : Cardinality(postedR[n]) <= 1

\* C3: no file written by the node holds the nonce k: the signer-state document
\* that sign-approve persists has no my_nonce_k value.
C3_NonceNeverOnDisk ==
    \A n \in Nodes : signerFile[n].exists => signerFile[n].my_nonce_k = NoInt

\* C4: at most one nonce derivation (HSM counter increment bound to the
\* request) ever happens on a node for the request, retries after a crash or a
\* failure included.
C4_AtMostOneDerivation ==
    \A n \in Nodes : Cardinality(derivations[n]) <= 1

\* C8: the HSM layer of the guard refuses sign-approve whenever the HSM holds a
\* NONCE_DERIV_<counter> audit record binding the request, even without a
\* NONCE_<id> object: such a call never goes on to derive a nonce.
C8_AuditRecordRefuses ==
    [][\A n \in Nodes :
          (ApproveBegin(n) /\ hsm[n].deriv # {}) => pc'[n] # "derive"]_vars

\* C2: the nonce k enters at most one partial-signature computation: a node
\* never computes two partial signatures with the same k over different
\* participant sets (hence different aggregate R and challenge).
C2_NonceConsumedOnce ==
    \A n \in Nodes : \A e1, e2 \in emitted[n] : e1[1] = e2[1] => e1[2] = e2[2]

\* C5: all posted partial signatures of the request are computed over one
\* participant set, the participants list of the session lock on the board, and
\* the combination of the participants' partials verifies.
C5_PartialsOverLockedSet ==
    /\ \A n \in Nodes :
          board.partials[n] # NoInt =>
              board.partials_over[n] = board.session.participants
    /\ last[2] # "finalize_invalid"

\* C6: once the session lock exists its participants list never changes; a
\* later post by the node that lost the race does not replace it.
C6_LockNeverChanges ==
    [][board.session # NoSession =>
          board'.session.participants = board.session.participants]_vars

\* the call of node n that this step ends (returns or raises, not a crash)
ApproveExit(n) ==
    /\ pc'[n] = "idle"
    /\ \/ ApproveBegin(n)
       \/ pc[n] \in ApprovePcs /\ faults'.crash = faults.crash

StartUsed(n) == IF pc[n] = "idle" THEN local[n].used_nonces ELSE mem[n].start_used

\* the nonce R of node n is recorded in the local state, the HSM and the board
InAllThree(n) ==
    /\ local[n].used_nonces # None
    /\ hsm[n].nonce = local[n].used_nonces
    /\ board.commitments[n] = local[n].used_nonces

\* C7: every sign-approve call ends with the nonce recorded in all three
\* witnesses (local used_nonces, HSM NONCE_<id>, board commitment), or with the
\* local witness as it was when the call began and no signer session written.
C7_AllThreeOrNothing ==
    [][\A n \in Nodes :
          ApproveExit(n) =>
              \/ InAllThree(n)'
              \/ /\ local'[n].used_nonces = StartUsed(n)
                 /\ signerFile'[n] = signerFile[n]]_vars

RecoveryStep(n) ==
    /\ faults'.crash = faults.crash
    /\ \/ ApproveBegin(n) /\ pc'[n] = "rec_store"
       \/ pc[n] \in {"rec_store", "rec_local"} /\ pc'[n] # pc[n]

RecoveryFrame(n) ==
    /\ hsm'[n].counter = hsm[n].counter
    /\ derivations' = derivations
    /\ postedR' = postedR
    /\ board' = board

\* C10 (as stated): with no local and no HSM record but the node's commitment on
\* the board, sign-approve derives nothing, posts nothing, and returns with the
\* board's R recorded for the request in both the local state and the HSM.
C10_RecoveryRecordsBoth ==
    [][\A n \in Nodes :
          RecoveryStep(n) =>
              /\ RecoveryFrame(n)
              /\ pc'[n] = "idle" =>
                    /\ local'[n].used_nonces = mem[n].R_hex
                    /\ hsm'[n].nonce = mem[n].R_hex]_vars

\* C10 (amended): the same call derives nothing and posts nothing; when the HSM
\* store of the recovery succeeds it returns with the board's R recorded in both
\* the local state and the HSM, and when that store raises it returns with
\* neither record written.
C10_RecoveryRecordsBothOrNeither ==
    [][\A n \in Nodes :
          RecoveryStep(n) =>
              /\ RecoveryFrame(n)
              /\ pc'[n] = "idle" =>
                    \/ /\ pc[n] = "rec_local"
                       /\ local'[n].used_nonces = mem[n].R_hex
                       /\ hsm'[n].nonce = mem[n].R_hex
                       /\ ~check_nonce_unused(local'[n])
                       /\ has_nonce_commitment(hsm'[n])
                    \/ /\ pc[n] = "rec_store"
                       /\ local'[n] = local[n]
                       /\ hsm'[n] = hsm[n]]_vars

C10_Witness ==
    \E n \in Nodes :
        /\ last = <<n, "approve_recovered">>
        /\ local[n].used_nonces = board.commitments[n]
        /\ hsm[n].nonce = board.commitments[n]
        /\ board.commitments[n] # None

\* C11: within one node's sign-approve the counter increment comes before the
\* local nonce record, which comes before the board post: with no state restore
\* and no board rewind (crashes at any step allowed), a commitment on the board
\* implies that the local state records the same R for the request, and a local
\* record implies that the HSM counter has advanced to the recorded derivation.
C11_IncrementBeforeLocalBeforeBoard ==
    (faults.restore = 0 /\ faults.rewind = 0) =>
        \A n \in Nodes :
            /\ board.commitments[n] # None =>
                  local[n].used_nonces = board.commitments[n]
            /\ local[n].used_nonces # None =>
                  /\ local[n].nonce_derivations \in derivations[n]
                  /\ hsm[n].counter # NoInt
                  /\ hsm[n].counter >= local[n].nonce_derivations
                  /\ local[n].nonce_derivations >= 1

C11_Witness ==
    \E n \in Nodes :
        /\ faults.restore = 0 /\ faults.rewind = 0
        /\ last = <<n, "crash">>
        /\ board.commitments[n] # None
        /\ local[n].used_nonces = board.commitments[n]
        /\ ~signerFile[n].exists

\* the posted FinalSignature satisfies s*G == R + e*P for the group key and
\* the request's message hash
ResultValid(b) ==
    LET e == Challenge(b.result.R, point_to_hex(group_pubkey), MsgHash)
    IN point_mul(b.result.s, G) =
           point_add(hex_to_point(b.result.R), point_mul(e, group_pubkey))

\* C18: a FinalSignature is on the board only if the combined (R, s) verified
\* against the group public key and the message hash; a sign-finalize whose
\* combination fails verification posts no result and changes no state.
C18_ResultOnlyIfVerified ==
    [][/\ board'.result # NoResult => ResultValid(board')
       /\ \A n \in Nodes :
             (FinalizeCombine(n) /\ last' = <<n, "finalize_invalid">>) =>
                 UNCHANGED <<board, local, hsm, signerFile>>]_vars

C18_Witness ==
    /\ last[2] = "finalize_invalid"
    /\ board.result = NoResult
    /\ Cardinality(PartialFiles(board)) >= Threshold

\* C20: the mailbox is append-only per path: a post to a path that already
\* exists never replaces its content (commitments, session lock, partials,
\* result), for any sequence of posts by any nodes.
C20_AppendOnlyPerPath ==
    [][/\ \A n \in Nodes :
             /\ board.commitments[n] # None =>
                   board'.commitments[n] = board.commitments[n]
             /\ board.partials[n] # NoInt =>
                   board'.partials[n] = board.partials[n]
       /\ board.session # NoSession => board'.session = board.session
       /\ board.result # NoResult => board'.result = board.result]_vars

\* C13: for every polynomial of a (t, n) DKG and every t-subset S whose members
\* approve and finalize, the combined signature (R, s), R the sum of the R_j
\* and s the sum of the partials k_j + e*lambda_j*x_j, satisfies
\* s*G == R + e*P with P the group public key.
C13_CombinedSignatureVerifies ==
    calc.done =>
        LET P == point_mul(calc.coefficients[1], G)
            S == Range(calc.participants)
            e == Challenge(calc.R, point_to_hex(P), MsgHash)
        IN /\ calc.valid
           /\ hex_to_point(calc.R) = SumOver([j \in Nodes |->
                                        IF j \in S THEN calc.k[j] ELSE 0], S) % ORDER
           /\ point_mul(calc.s, G) = point_add(hex_to_point(calc.R), point_mul(e, P))

C13_Witness ==
    /\ calc.done
    /\ calc.valid
    /\ calc.participants = <<1, 3>>
    /\ calc.coefficients[2] # 0
    /\ calc.coefficients[1] # 0
    /\ ~is_identity(hex_to_point(calc.R))

Finalized(n) == local[n].phase = "finalized"

\* the secret the finalized nodes of S reconstruct: the Lagrange interpolation
\* at 0 of their final shares
Interpolate(S) ==
    SumOver([j \in Nodes |->
                IF j \in S THEN (Lagrange(j, SortedSeq(S)) * hsm[j].share) % ORDER ELSE 0], S)

\* C14: in a DKG round in which every share verifies, each finalized node's
\* group public key is the sum of the constant-term commitments of the round's
\* n participants, its final share is the sum over the same participants of
\* f_i(own index), and the Lagrange interpolation at 0 of any t final shares is
\* the discrete log of the group public key.
C14_GroupKeyAndShares ==
    /\ \A n \in Nodes :
          Finalized(n) =>
              /\ \A i \in Nodes : dkgBoard.commitments[i] # <<>> /\ dkgFile[i].exists
              /\ hex_to_point(local[n].group_pubkey_hex) =
                     SumOver([i \in Nodes |-> hex_to_point(dkgBoard.commitments[i][1])],
                             Nodes)
              /\ hsm[n].share =
                     SumOver([i \in Nodes |->
                                 compute_share_for(dkgFile[i].coefficients, n)], Nodes)
    /\ \A S \in SUBSET Nodes :
          (Cardinality(S) = Threshold /\ \A j \in S : Finalized(j)) =>
              \A j \in S :
                  point_mul(Interpolate(S), G) = hex_to_point(local[j].group_pubkey_hex)

\* C15: a node's DKG phase changes only by the single steps none -> committed,
\* committed -> distributed, distributed -> finalized; dkg-finalize reaches
\* finalized only from phase distributed.
C15_PhaseSingleSteps ==
    [][\A n \in Nodes :
          local'[n].phase # local[n].phase =>
              <<local[n].phase, local'[n].phase>> \in
                  {<<"none", "committed">>, <<"committed", "distributed">>,
                   <<"distributed", "finalized">>}]_vars

\* C16: if any incoming share fails decryption or Feldman verification,
\* dkg-finalize aborts and accepts nothing: a run that goes on to store a final
\* share has accepted only shares f_s(n) of the senders' polynomials, and a run
\* that aborts leaves the HSM, the node state and the phase unchanged.
C16_BadShareAbortsAll ==
    [][\A n \in Nodes :
          DkgFinalizeVerify(n) =>
              /\ pc'[n] = "dkgfin_store" =>
                    \A s \in SharesTo(dkgBoard, n) :
                        mem'[n].received_shares[s] =
                            compute_share_for(dkgFile[s].coefficients, n)
              /\ last' = <<n, "dkg_finalize_aborted">> =>
                    /\ hsm' = hsm /\ local' = local
                    /\ dkgFile' = dkgFile /\ dkgBoard' = dkgBoard]_vars

C16_Witness ==
    \E n \in Nodes :
        /\ last = <<n, "dkg_finalize_aborted">>
        /\ hsm[n].share = NoInt
        /\ local[n].phase = "distributed"
        /\ local[n].group_pubkey_hex = None
        /\ Cardinality(SharesTo(dkgBoard, n)) = TotalNodes - 1

C19_CoefficientsDestroyed ==
    \A n \in Nodes :
        (Finalized(n) /\ pc[n] = "idle") =>
            (~dkgFile[n].exists \/ dkgFile[n].coefficients = <<>>)

\* C12: the HSM nonce counter is strictly increasing: over any sequence of
\* init and derive calls on one HSM (init again after state.json is deleted,
\* derive calls killed after the increment), each derive call uses a counter
\* greater than that of every earlier derive call, and no operation lowers or
\* resets the stored counter.
C12_CounterStrictlyIncreasing ==
    [][\A n \in Nodes :
          /\ DeriveCreate(n) => \A c \in derivations[n] : mem[n].counter > c
          /\ (hsm[n].counter # NoInt /\ hsm'[n].counter # NoInt) =>
                hsm'[n].counter >= hsm[n].counter
          /\ hsm'[n].counter # NoInt =>
                \A c \in derivations[n] : hsm'[n].counter >= c]_vars

C12_Witness ==
    \E n \in Nodes :
        /\ Cardinality(derivations[n]) >= 2
        /\ local[n].identity_key_posted
        /\ hsm[n].counter = 2
        /\ faults.crash > 0

C22_SignerRoundTrip ==
    (calc.op = "signer" /\ calc.done) =>
        /\ calc.output.node_id = calc.input.node_id
        /\ calc.output.my_index = calc.input.my_index
        /\ calc.output.my_share = calc.input.my_share
        /\ calc.output.group_pubkey = calc.input.group_pubkey
        /\ calc.output.sessions.request_id = calc.input.sessions.request_id
        /\ calc.output.sessions.message_hash = calc.input.sessions.message_hash
        /\ calc.output.sessions.nonce_commitments = calc.input.sessions.nonce_commitments
        /\ calc.output.sessions.partial_signatures = calc.input.sessions.partial_signatures

C22_Witness ==
    /\ calc.op = "signer" /\ calc.done
    /\ calc.input.group_pubkey = ORDER - 2
    /\ calc.input.sessions.message_hash = <<171, 0>>
    /\ calc.input.sessions.nonce_commitments[calc.input.my_index] = IDENTITY
    /\ calc.input.sessions.partial_signatures[calc.input.my_index] = ORDER - 1
    /\ calc.output = calc.input

\* C23: point serialization round-trips: point_to_hex(hex_to_point(h)) = h for
\* every well-formed compressed encoding h, "00" included, and
\* hex_to_point(point_to_hex(P)) = P for every point P.
C23_PointRoundTrip ==
    (calc.op \in {"point", "hex"} /\ calc.done) => calc.output = calc.input

C23_Witness ==
    /\ calc.op = "hex" /\ calc.done
    /\ calc.input = <<"03", 5>>
    /\ calc.output = <<"03", 5>>

\* C30: receive_commitment rejects a commitment list whose length differs from
\* the threshold t and stores nothing for that sender, so no share is accepted
\* against a commitment vector of a length other than t.
C30_WrongCountRejected ==
    (calc.op = "commitment" /\ calc.done /\ Len(calc.input) # Threshold) =>
        /\ calc.output.stored = <<>>
        /\ calc.output.accepted = {}

\* C24: threshold soundness: for every (t-1)-subset of the participants,
\* combining only their honest partial signatures with the aggregate R of the
\* locked t-set yields an (R, s) for which verify returns false.
C24_ShortNeverVerifies ==
    \A r \in calc.short : ~r.valid

\* C24 (amended): the (R, s) combined from a (t-1)-subset verifies exactly when
\* the partial signatures left out sum to zero modulo ORDER; in every other
\* run verify returns false.
C24_ShortVerifiesOnlyOnZero ==
    \A r \in calc.short : r.valid <=> (r.omitted = 0)

C24_Witness ==
    /\ calc.op = "sign" /\ calc.done /\ calc.valid
    /\ Cardinality(calc.short) = Threshold
    /\ \A r \in calc.short : ~r.valid /\ r.omitted # 0

\* C25: concurrent derive calls on the same HSM serialize on the counter: in
\* every interleaving of two derive_nonce calls, once both have ended, both have
\* returned a counter value, the two values differ and the stored counter is
\* the initial value plus two.
C25_ConcurrentDeriveSerializes ==
    (\A p \in Callers : pc[p] \in {"race_returned", "race_raised"}) =>
        /\ \A p \in Callers : pc[p] = "race_returned" /\ mem[p].counter # NoInt
        /\ \A p, q \in Callers : p # q => mem[p].counter # mem[q].counter
        /\ hsm[1].counter = calc.input + 2

\* C26: the HSM counter is replaced atomically: once init has completed on a
\* node, the NONCE_COUNTER object exists in every reachable state of its HSM,
\* the states inside an increment and the state a crash there leaves included.
C26_CounterAlwaysExists ==
    \A n \in Nodes :
        (local[n].identity_key_posted /\ has_nonce_master_seed(hsm[n])) =>
            hsm[n].counter # NoInt

\* C27: when the store of the NONCE_<request_id> record in sign-approve is
\* refused because a record exists, or fails for any other reason, sign-approve
\* ends there: the nonce is not recorded in the local state and no commitment
\* is posted.
C27_StoreFailureAborts ==
    [][\A n \in Nodes :
          (ApproveStore(n) /\ store_nonce_commitment(hsm[n], mem[n].R_hex, TRUE).hsm # hsm'[n]) =>
              /\ pc'[n] = "idle"
              /\ local'[n] = local[n]
              /\ board' = board]_vars

C29_ReceivedSharesVerified ==
    \A n, sender \in Nodes :
        mem[n].received_shares[sender] # NoInt =>
            LET C == mem[n].other_commitments[sender]
            IN /\ C # <<>>
               /\ point_mul(mem[n].received_shares[sender], G) =
                      SumOver([k \in 1..Len(C) |->
                                  point_mul(ModPow(n, k - 1), C[k])], 1..Len(C))

C29_Witness ==
    \E n \in Nodes :
        /\ pc[n] = "dkgfin_store"
        /\ {s \in Nodes : mem[n].received_shares[s] # NoInt} = Nodes \ {n}
        /\ \E s \in Nodes \ {n} : mem[n].other_commitments[s][1] # 0
        /\ faults.dkgcrash > 0

\* C31: compute_partial fails when the node's own id is not in the participant
\* set or when some participant has no recorded R: no partial signature is
\* produced or recorded and the nonce k is left as it was.
C31_PartialNeedsSelfAndAllR ==
    (calc.op = "partial" /\ calc.done) =>
        LET signer == calc.input.signer
            S == Range(calc.input.participants)
        IN (signer.my_index \notin S
               \/ \E j \in S : signer.sessions.nonce_commitments[j] = NoInt) =>
              /\ calc.output.raised # "no"
              /\ calc.output.s_i = NoInt
              /\ calc.output.signer = signer

\* the early returns of sign-finalize
FinalizeEarlyReturns ==
    {"finalize_no_session", "finalize_below_threshold", "finalize_not_approved",
     "finalize_not_in_set"}

\* C32: every early return of sign-finalize (no persisted session, fewer than
\* t commitments on the board, own commitment absent, own node not in the
\* locked participant set) changes nothing: no session lock, partial
\* signature or result is posted and the nonce is not consumed.
C32_EarlyReturnsChangeNothing ==
    [][\A n \in Nodes :
          (pc[n] = "idle" /\ last' = <<n, last'[2]>> /\ last'[2] \in FinalizeEarlyReturns) =>
              /\ board' = board
              /\ signerFile' = signerFile
              /\ emitted' = emitted
              /\ UNCHANGED <<local, hsm>>]_vars

C32_Witness ==
    /\ last[2] = "finalize_not_in_set"
    /\ board.session # NoSession
    /\ last[1] \notin Range(board.session.participants)
    /\ signerFile[last[1]].my_nonce_k # NoInt

\* the k smallest ids of S
FirstIds(S, k) == {x \in S : Cardinality({y \in S : y < x}) < k}

\* the set the rule names for node n over the commitments of the nodes in S
SelectedSet(n, S) ==
    IF n \in FirstIds(S, Threshold) THEN FirstIds(S, Threshold)
    ELSE {n} \cup FirstIds(S \ {n}, Threshold - 1)

\* C33: when no session lock exists, the participant set a node selects and
\* posts has exactly t members, contains the node, contains only nodes whose
\* nonce commitment is on the board, and is the first t sorted ids if the node
\* is among them, otherwise the node plus the first t-1 of the remaining ids.
C33_SelectedSet ==
    [][\A n \in Nodes :
          /\ (pc[n] = "idle" /\ pc'[n] = "fin_lock") =>
                /\ board.session = NoSession
                /\ Len(mem'[n].participants) = Threshold
                /\ Cardinality(Range(mem'[n].participants)) = Threshold
                /\ n \in Range(mem'[n].participants)
                /\ Range(mem'[n].participants) \subseteq CommitFiles(board)
                /\ Range(mem'[n].participants) = SelectedSet(n, CommitFiles(board))
                /\ \A i, j \in 1..Threshold :
                      i < j => mem'[n].participants[i] < mem'[n].participants[j]
          /\ (pc[n] = "fin_lock" /\ pc'[n] = "fin_load") =>
                /\ board'.session.participants = mem[n].participants
                /\ board'.session.locked_by = n]_vars

C33_Witness ==
    /\ pc[TotalNodes] = "fin_load"
    /\ board.session.locked_by = TotalNodes
    /\ CommitFiles(board) = Nodes
    /\ Range(board.session.participants) = {1, TotalNodes}

\* the worker threads inside Mailbox.sync
InSync == {w \in Nodes : pc[w] \in {"w_fetch", "w_reset"}}

\* C34: within a node, state-mutating steps are never executed by two threads
\* at once: during dkg-distribute and dkg-finalize no two worker threads are
\* inside mailbox sync (fetch plus hard reset of the shared working tree)
\* together, and none of them writes received_shares while another does.
C34_SingleThreadedMutation ==
    calc.op = "threads" =>
        /\ Cardinality(InSync) <= 1
        /\ Cardinality({w \in Nodes : pc[w] = "w_store"}) <= 1

\* the document after the updater of process p is applied to the document st
Applied(p, st) ==
    CASE calc.input.updater[p] = "derivation" ->
             [st EXCEPT !.used_nonces = <<"02", p>>, !.nonce_derivations = p]
      [] calc.input.updater[p] = "use" -> [st EXCEPT !.used_nonces = <<"03", p>>]
      [] OTHER -> [st EXCEPT !.phase = "distributed"]

\* the documents that the updates finished so far give in some serial order
SerialResults(finished) ==
    IF finished = {} THEN {calc.input.state}
    ELSE IF Cardinality(finished) = 1
    THEN {Applied(p, calc.input.state) : p \in finished}
    ELSE {Applied(pq[1], Applied(pq[2], calc.input.state)) :
             pq \in {x \in finished \X finished : x[1] # x[2]}}

\* C35: state-store updates are atomic read-modify-writes: for every
\* interleaving of two concurrent RigidState.update calls the state file
\* reflects the finished updaters applied in some serial order, no update
\* fails, and a concurrent load never observes a partially written document.
C35_UpdatesSerialize ==
    calc.op = "store" =>
        /\ calc.output.file.complete
        /\ calc.output.file.doc \in SerialResults({p \in Callers : pc[p] = "u_done"})
        /\ \A p \in Callers : pc[p] # "u_raised"
        /\ \A seen \in calc.output.observed :
              /\ seen.complete
              /\ seen.doc \in SerialResults({}) \cup SerialResults({1}) \cup SerialResults({2})
                                \cup SerialResults(Callers)

C35_Witness ==
    /\ calc.op = "store"
    /\ \A p \in Callers : pc[p] = "u_done"
    /\ calc.input.updater[1] = "derivation" /\ calc.input.updater[2] = "phase"
    /\ calc.output.file.doc.phase = "distributed"
    /\ calc.output.file.doc.nonce_derivations = 1
    /\ Cardinality(calc.output.observed) = 3

\* C36: Mailbox.post always terminates: it makes at most retries attempts and
\* either returns success only after the content has been pushed to the remote
\* board, or raises after the last failed attempt; a failure is never reported
\* as success.
C36_PostSucceedsOnlyIfPushed ==
    calc.op = "post" =>
        /\ calc.output.attempt <= calc.input.retries
        /\ calc.output.returned => calc.output.remote = calc.input.data
        /\ pc[1] = "p_raised" =>
              (calc.output.attempt = calc.input.retries /\ ~calc.output.returned)

\* C37: dkg-start persists the polynomial locally before posting its
\* commitments: whenever no command of a node is running (also after a crash
\* inside dkg-start and a re-run), the commitments of the node on the board are
\* the commitments of the coefficients in its local DKG session file.
C37_BoardMatchesFile ==
    \A n \in Nodes :
        (pc[n] = "idle" /\ dkgBoard.commitments[n] # <<>>) =>
            /\ dkgFile[n].exists
            /\ dkgBoard.commitments[n] = generate_polynomial(dkgFile[n].coefficients)

\* C38: whenever a node's DKG phase is distributed, the board holds an
\* encrypted share from that node to every one of the n-1 other participants;
\* the phase does not advance to distributed while a share for some other
\* participant is unposted.
C38_DistributedMeansAllPosted ==
    \A n \in Nodes :
        local[n].phase = "distributed" =>
            \A t \in Nodes \ {n} : dkgBoard.shares[n][t] # NoInt

\* the nodes whose sign-approve has finished: commitment posted, session saved
Approved ==
    {n \in Nodes : pc[n] = "idle" /\ signerFile[n].exists /\ board.commitments[n] # None}

C40_DkgLiveness ==
    <>(\A n \in Nodes :
          /\ Finalized(n)
          /\ local[n].my_share_stored
          /\ hsm[n].share # NoInt)

====
